---- MODULE Spec2Model ----
(***************************************************************************)
(* A model of reef's bash front end: the byte lexer (src/src/lexer.rs),    *)
(* the recursive-descent parser (src/src/parser.rs) and the translator's   *)
(* command-level emitters (src/src/translate.rs), and of the persistent    *)
(* bash daemon (src/src/daemon.rs).                                        *)
(*                                                                         *)
(* Bytes are one-character strings.  Two bytes have no one-character       *)
(* TLA+ literal and are named: NUL (the lexer's end-of-input sentinel) and *)
(* BQ (the backtick).  Positions are 0-based byte offsets as in the Rust   *)
(* code, so byte i of the input is src[i + 1].                             *)
(*                                                                         *)
(* Every function of the code is an operator of the same name that takes   *)
(* the parser (a record p with the fields of Parser and Lexer) and returns *)
(* the parser after the call, or a record [p |-> parser, v |-> value].     *)
(* p.st is "ok" while the call chain is running normally, "err" once a     *)
(* ParseError has been returned (p.epos, p.emsg) and "panic" once Rust     *)
(* would have panicked.                                                    *)
(***************************************************************************)
EXTENDS Integers, Sequences, FiniteSets, TLC

VARIABLES
    parser,     \* the top-level Parser: src, pos, heredoc_resume, status
    cmds,       \* Vec<Cmd> collected by the top-level cmd_list
    pc,         \* where the run stands
    result,     \* what the entry point returned
    out,        \* translate_bash_to_fish's output buffer
    ctx,        \* translate's Ctx
    idx,        \* translate_bash_to_fish's loop index
    probe,      \* the lexer/arith harness: what the last query answered
    listener,   \* daemon: the connections waiting in the UnixListener, oldest first
    server,     \* daemon: where serve() stands, its stream and its response buffer
    bash,       \* daemon: the bash child process and its two pipes
    clients,    \* daemon: what each client has been sent
    trace       \* daemon: what serve() has done so far, in order

daemon_vars == <<listener, server, bash, clients, trace>>

vars == <<parser, cmds, pc, result, out, ctx, idx, probe,
          listener, server, bash, clients, trace>>

\* No daemon is running
NoDaemon ==
    /\ listener = <<>>
    /\ server = [pc |-> "none"]
    /\ bash = [status |-> "none"]
    /\ clients = <<>>
    /\ trace = <<>>

-----------------------------------------------------------------------------
(* Bounds of the model.                                                    *)

\* Longest input, in tokens of the alphabet a specification draws from.
MaxTokens == 4

\* Longest heredoc input, in lines after the line that opens the heredoc.
MaxLines == 4

-----------------------------------------------------------------------------
(* Bytes and byte classes.                                                 *)

NUL == "NUL"
BQ == "BQ"
BS == "\\"
DQ == "\""
SQ == "'"
NL == "\n"
TAB == "\t"
SP == " "

Lower == {"a","b","c","d","e","f","g","h","i","j","k","l","m",
          "n","o","p","q","r","s","t","u","v","w","x","y","z"}
Upper == {"A","B","C","D","E","F","G","H","I","J","K","L","M",
          "N","O","P","Q","R","S","T","U","V","W","X","Y","Z"}
Digit == {"0","1","2","3","4","5","6","7","8","9"}

is_ascii_alphabetic(b) == b \in Lower \cup Upper
is_ascii_digit(b) == b \in Digit
is_ascii_alphanumeric(b) == is_ascii_alphabetic(b) \/ is_ascii_digit(b)

\* The bytes that continue a multi-byte UTF-8 character: a str slice that
\* starts or ends before one of them panics.
Utf8Continuation == {"<A9>"}

is_meta(b) ==
    b \in {SP, TAB, NL, ";", "&", "|", "(", ")", "<", ">", NUL}

-----------------------------------------------------------------------------
(* Lexer.                                                                  *)

SomeOf(n) == [some |-> TRUE, v |-> n]
None == [some |-> FALSE, v |-> 0]

\* Parser::new / Lexer::new, with the logs the properties read:
\*   slices  every (start, end, input length) a slice was asked for
\*   probes  every speculative probe that answered "no match"
\*   hd      every heredoc found: where its body and delimiter line lie
\*   starts  every position at which cmd() began to parse a command
\*   takes   how many times cmd() consumed a saved resume position
NewParser(input) ==
    [src |-> input, pos |-> 0, heredoc_resume |-> None,
     st |-> "ok", epos |-> 0, emsg |-> "",
     slices |-> {}, probes |-> {}, hd |-> <<>>, starts |-> {}, takes |-> 0]

is_eof(p) == p.pos >= Len(p.src)

peek(p) == IF p.pos < Len(p.src) THEN p.src[p.pos + 1] ELSE NUL

peek_at(p, offset) ==
    LET i == p.pos + offset IN IF i < Len(p.src) THEN p.src[i + 1] ELSE NUL

is_char_boundary(src, i) ==
    \/ i = 0
    \/ i = Len(src)
    \/ (i < Len(src) /\ src[i + 1] \notin Utf8Continuation)

\* &input[start..end]: Rust panics unless start <= end <= len and both lie
\* on character boundaries.
SliceOk(src, start, end) ==
    /\ start <= end
    /\ end <= Len(src)
    /\ is_char_boundary(src, start)
    /\ is_char_boundary(src, end)

Text(p, start, end) ==
    IF SliceOk(p.src, start, end) THEN SubSeq(p.src, start + 1, end) ELSE <<>>

slice_range(p, start, end) ==
    [p EXCEPT !.slices = @ \cup {<<start, end, Len(p.src)>>},
              !.st = IF SliceOk(p.src, start, end) THEN @ ELSE "panic"]

slice(p, start) == slice_range(p, start, p.pos)

remaining(p) == slice_range(p, p.pos, Len(p.src))

set_pos(p, n) == [p EXCEPT !.pos = n]

bump(p) == [p EXCEPT !.pos = @ + 1]

bump_n(p, n) == [p EXCEPT !.pos = @ + n]

eat_ok(p, b) == peek(p) = b

eat(p, b) == IF peek(p) = b THEN bump(p) ELSE p

eat_str_ok(p, s) ==
    /\ p.pos + Len(s) <= Len(p.src)
    /\ SubSeq(p.src, p.pos + 1, p.pos + Len(s)) = s

eat_str(p, s) == IF eat_str_ok(p, s) THEN bump_n(p, Len(s)) ELSE p

RECURSIVE skip_blanks(_)
skip_blanks(p) ==
    IF p.pos < Len(p.src) /\ p.src[p.pos + 1] \in {SP, TAB}
    THEN skip_blanks(bump(p))
    ELSE p

RECURSIVE SkipToNewline(_)
SkipToNewline(p) ==
    IF p.pos < Len(p.src) /\ p.src[p.pos + 1] # NL
    THEN SkipToNewline(bump(p))
    ELSE p

skip_comment(p) == IF peek(p) = "#" THEN SkipToNewline(p) ELSE p

RECURSIVE ReadNameRest(_)
ReadNameRest(p) ==
    IF p.pos < Len(p.src)
       /\ (is_ascii_alphanumeric(p.src[p.pos + 1]) \/ p.src[p.pos + 1] = "_")
    THEN ReadNameRest(bump(p))
    ELSE p

\* read_name: the parser after the call; the name is Text(p, start, pos).
read_name(p) ==
    LET q == IF p.pos < Len(p.src)
                /\ (is_ascii_alphabetic(p.src[p.pos + 1]) \/ p.src[p.pos + 1] = "_")
             THEN ReadNameRest(bump(p))
             ELSE p
    IN  [p |-> slice(q, p.pos), v |-> Text(q, p.pos, q.pos)]

RECURSIVE ReadDigits(_)
ReadDigits(p) ==
    IF p.pos < Len(p.src) /\ is_ascii_digit(p.src[p.pos + 1])
    THEN ReadDigits(bump(p))
    ELSE p

read_number(p) ==
    LET q == ReadDigits(p)
    IN  [p |-> slice(q, p.pos), v |-> Text(q, p.pos, q.pos)]

Err(p, msg) == [p EXCEPT !.st = "err", !.epos = p.pos, !.emsg = msg]

Ret(p, v) == [p |-> p, v |-> v]

Fail(p, msg) == [p |-> Err(p, msg), v |-> <<>>]

RECURSIVE ScanSquoteFrom(_, _)
ScanSquoteFrom(p, start) ==
    IF p.pos < Len(p.src)
    THEN IF p.src[p.pos + 1] = SQ
         THEN LET q == slice(p, start)
              IN  Ret(bump(q), Text(p, start, p.pos))
         ELSE ScanSquoteFrom(bump(p), start)
    ELSE Fail(p, "unterminated single quote")

scan_squote(p) == ScanSquoteFrom(p, p.pos)

at_keyword_NoBoundary(p, kw) ==
    LET end == p.pos + Len(kw)
    IN  IF end > Len(p.src) THEN FALSE
        ELSE SubSeq(p.src, p.pos + 1, end) = kw

at_keyword(p, kw) ==
    LET end == p.pos + Len(kw)
    IN  IF end > Len(p.src) THEN FALSE
        ELSE IF SubSeq(p.src, p.pos + 1, end) # kw THEN FALSE
        ELSE IF Len(kw) = 1 /\ is_meta(kw[1]) THEN TRUE
        ELSE end >= Len(p.src) \/ is_meta(p.src[end + 1])

at_any_keyword(p, keywords) == \E kw \in keywords : at_keyword(p, kw)

-----------------------------------------------------------------------------
(* Syntax tree (src/src/ast.rs).  Borrowed text is a sequence of bytes.    *)

Lit(s) == [k |-> "Lit", s |-> s]
Escaped(s) == [k |-> "Escaped", s |-> s]
ParamAtom(param) == [k |-> "Param", param |-> param]
SubstAtom(subst) == [k |-> "Subst", subst |-> subst]
ProcSubIn(cs) == [k |-> "ProcSubIn", cmds |-> cs]
AnsiCQuoted(s) == [k |-> "AnsiCQuoted", s |-> s]
BraceRange(a, b, c) == [k |-> "BraceRange", start |-> a, end |-> b, step |-> c]
Unit(kind) == [k |-> kind]

Bare(atom) == [k |-> "Bare", atom |-> atom]
DQuoted(atoms) == [k |-> "DQuoted", atoms |-> atoms]
SQuoted(s) == [k |-> "SQuoted", s |-> s]

\* Word::Simple(part) when there is one part, Word::Concat(parts) otherwise.
MkWord(parts) ==
    [k |-> IF Len(parts) = 1 THEN "Simple" ELSE "Concat", parts |-> parts]

Var(name) == [k |-> "Var", name |-> name]
Positional(n) == [k |-> "Positional", n |-> n]

SubstCmd(cs) == [k |-> "Cmd", cmds |-> cs]
SubstArith(e) == [k |-> "Arith", expr |-> e]

Bin(kind, l, r) == [k |-> kind, l |-> l, r |-> r]
Un(kind, e) == [k |-> kind, e |-> e]
ANum(n) == [k |-> "Lit", n |-> n]
AVar(name) == [k |-> "Var", name |-> name]
ANamed(kind, name) == [k |-> kind, name |-> name]

-----------------------------------------------------------------------------
(* Numbers.                                                                *)

DigitVal(b) ==
    CASE b = "0" -> 0 [] b = "1" -> 1 [] b = "2" -> 2 [] b = "3" -> 3
      [] b = "4" -> 4 [] b = "5" -> 5 [] b = "6" -> 6 [] b = "7" -> 7
      [] b = "8" -> 8 [] b = "9" -> 9
      [] b \in {"a", "A"} -> 10 [] b \in {"b", "B"} -> 11
      [] b \in {"c", "C"} -> 12 [] b \in {"d", "D"} -> 13
      [] b \in {"e", "E"} -> 14 [] b \in {"f", "F"} -> 15
      [] OTHER -> 99

RECURSIVE RadixVal(_, _, _)
\* The value of the digit string s in the given radix, or -1 when s is not
\* one.  The digit strings of the inputs are a few bytes long, far from the
\* nineteen digits at which an i64 overflows.
RadixVal(s, radix, acc) ==
    IF s = <<>> THEN acc
    ELSE LET d == DigitVal(s[1])
         IN  IF d >= radix THEN -1
             ELSE RadixVal(Tail(s), radix, acc * radix + d)

\* i64::from_str_radix(s, radix).unwrap_or(0) on an unsigned digit string
from_str_radix_or0(s, radix) ==
    IF s = <<>> THEN 0
    ELSE LET n == RadixVal(s, radix, 0) IN IF n < 0 THEN 0 ELSE n

\* s.parse::<i64>().is_ok(): an optional sign and at least one digit
parse_i64_ok(s) ==
    LET body == IF s # <<>> /\ s[1] \in {"+", "-"} THEN Tail(s) ELSE s
    IN  /\ body # <<>>
        /\ \A i \in 1..Len(body) : is_ascii_digit(body[i])
        /\ RadixVal(body, 10, 0) >= 0

\* The offset of the first ".." in s, or -1: str::find("..")
find_dotdot(s) ==
    LET hits == {i \in 1..(Len(s) - 1) : s[i] = "." /\ s[i + 1] = "."}
    IN  IF hits = {} THEN -1
        ELSE (CHOOSE i \in hits : \A j \in hits : i <= j) - 1

\* The offset of the first byte b in s, or -1: iter().position(..)
position_of(s, b) ==
    LET hits == {i \in 1..Len(s) : s[i] = b}
    IN  IF hits = {} THEN -1
        ELSE (CHOOSE i \in hits : \A j \in hits : i <= j) - 1

-----------------------------------------------------------------------------
(* Parser (src/src/parser.rs).                                             *)

Bad(r) == r.p.st # "ok"

\* A construct of the grammar this model does not follow: reaching it is
\* reported, never taken for a parse.
Unmodelled(p, what) ==
    [p |-> [p EXCEPT !.st = "unmodelled", !.epos = p.pos, !.emsg = what],
     v |-> <<>>]

rewind_Stay(p, n) == p

rewind(p, n) == set_pos(p, n)

\* A probe answered "no match" and left the cursor at p.pos; it was entered
\* at `entry` and had read up to `far`.
NoMatch(p, f, entry, far) ==
    [p EXCEPT !.probes = @ \cup
        {[f |-> f, entry |-> entry, exit |-> p.pos, far |-> far]}]

RECURSIVE skip_separators(_)
skip_separators(p) ==
    LET q == skip_blanks(p)
    IN  IF peek(q) \in {";", NL} THEN skip_separators(bump(q))
        ELSE IF peek(q) = "#" THEN skip_separators(skip_comment(q))
        ELSE q

eat_separator(p) ==
    LET q == skip_blanks(p)
    IN  IF peek(q) = ";" \/ peek(q) = NL THEN bump(q) ELSE q

expect(p, kw, msg) ==
    LET q == skip_blanks(p)
    IN  IF eat_str_ok(q, kw) THEN eat_str(q, kw) ELSE Err(q, msg)

at_terminator(p) ==
    LET b == peek(p)
    IN  \/ b = NUL
        \/ b = NL
        \/ b = ";"
        \/ b = ")"
        \/ b = "}"
        \/ b = "|"
        \/ (b = "&" /\ peek_at(p, 1) # ">")

\* The parsing functions call one another, and themselves, through Call:
\* Call("word", p, <<>>) is self.word() on parser p, and Call("arith", p, n)
\* is self.arith(n).  Call is defined after the last of them.
RECURSIVE Call(_, _, _)

WordEnd(p, parts) ==
    IF Len(parts) = 0 THEN Fail(p, "expected word") ELSE Ret(p, MkWord(parts))

RECURSIVE WordLoop(_, _)
WordLoop(p, parts) ==
    IF is_eof(p) THEN WordEnd(p, parts)
    ELSE
    LET b == peek(p) IN
    IF b = "<" /\ peek_at(p, 1) = "("
    THEN LET r == Call("cmd_list", bump_n(p, 2), {<<")">>}) IN
         IF Bad(r) THEN r ELSE
         LET q == skip_blanks(r.p) IN
         IF ~eat_ok(q, ")")
         THEN Fail(q, "expected ')' for process substitution")
         ELSE WordLoop(eat(q, ")"), Append(parts, Bare(ProcSubIn(r.v))))
    ELSE IF b = ">" /\ peek_at(p, 1) = "("
    THEN Fail(p, "unsupported: output process substitution >(...)")
    ELSE IF is_meta(b) THEN WordEnd(p, parts)
    ELSE LET r == Call("word_part", p, <<>>) IN
         IF Bad(r) THEN r ELSE WordLoop(r.p, Append(parts, r.v))

word(p) == WordLoop(p, <<>>)

word_part_Interpreting(p) ==
    IF peek(p) = DQ \/ peek(p) = SQ
    THEN LET r == Call("dquoted", bump(p), <<>>) IN
         IF Bad(r) THEN r ELSE Ret(r.p, DQuoted(r.v))
    ELSE LET r == Call("atom", p, <<>>) IN
         IF Bad(r) THEN r ELSE Ret(r.p, Bare(r.v))

word_part(p) ==
    IF peek(p) = DQ
    THEN LET r == Call("dquoted", bump(p), <<>>) IN
         IF Bad(r) THEN r ELSE Ret(r.p, DQuoted(r.v))
    ELSE IF peek(p) = SQ
    THEN LET r == scan_squote(bump(p)) IN
         IF Bad(r) THEN r ELSE Ret(r.p, SQuoted(r.v))
    ELSE LET r == Call("atom", p, <<>>) IN
         IF Bad(r) THEN r ELSE Ret(r.p, Bare(r.v))

\* "Flush accumulated literal": push Lit(slice(lit_start)) when non-empty
Flush(p, atoms, lit_start) ==
    IF p.pos > lit_start
    THEN Ret(slice(p, lit_start), Append(atoms, Lit(Text(p, lit_start, p.pos))))
    ELSE Ret(p, atoms)

DquotedEnd(p, atoms, lit_start) ==
    LET f == Flush(p, atoms, lit_start) IN
    IF Bad(f) THEN f
    ELSE IF ~eat_ok(f.p, DQ) THEN Fail(f.p, "unterminated double quote")
    ELSE Ret(eat(f.p, DQ), f.v)

RECURSIVE DquotedLoop(_, _, _)
DquotedLoop(p, atoms, lit_start) ==
    IF is_eof(p) \/ peek(p) = DQ THEN DquotedEnd(p, atoms, lit_start)
    ELSE IF peek(p) = "$"
    THEN LET f == Flush(p, atoms, lit_start) IN
         IF Bad(f) THEN f ELSE
         LET r == Call("dollar", f.p, <<>>) IN
         IF Bad(r) THEN r ELSE DquotedLoop(r.p, Append(f.v, r.v), r.p.pos)
    ELSE IF peek(p) = BS
    THEN LET f == Flush(p, atoms, lit_start) IN
         IF Bad(f) THEN f ELSE
         LET q == bump(f.p) IN
         IF is_eof(q) THEN DquotedEnd(q, f.v, lit_start)
         ELSE LET e == slice(bump(q), q.pos) IN
              IF e.st # "ok" THEN Ret(e, <<>>)
              ELSE DquotedLoop(e, Append(f.v, Escaped(Text(e, q.pos, e.pos))),
                               e.pos)
    ELSE IF peek(p) = BQ
    THEN LET f == Flush(p, atoms, lit_start) IN
         IF Bad(f) THEN f ELSE
         LET r == Call("backtick", f.p, <<>>) IN
         IF Bad(r) THEN r ELSE DquotedLoop(r.p, Append(f.v, r.v), r.p.pos)
    ELSE DquotedLoop(bump(p), atoms, lit_start)

dquoted(p) == DquotedLoop(p, <<>>, p.pos)

\* Bytes that end a run of literal characters in atom()
AtomBreak == {DQ, SQ, "$", BS, "*", "?", "[", "]", "~", "{", BQ}

RECURSIVE LitRun(_)
LitRun(p) ==
    IF ~is_eof(p) /\ ~(is_meta(peek(p)) \/ peek(p) \in AtomBreak)
    THEN LitRun(bump(p))
    ELSE p

valid_range_val(s) ==
    parse_i64_ok(s) \/ (Len(s) = 1 /\ is_ascii_alphabetic(s[1]))

\* try_brace_range: v is None-like <<>> with found = FALSE when the probe
\* reports no match.
try_brace_range(p) ==
    LET start_pos == p.pos
        No(q, far) == [p |-> NoMatch(q, "try_brace_range", start_pos, far),
                       v |-> <<>>, found |-> FALSE]
    IN
    IF peek(p) # "{" THEN No(p, p.pos) ELSE
    LET p1 == remaining(p)
        src == SubSeq(p.src, p.pos + 2, Len(p.src))
        close == position_of(src, "}")
    IN
    IF close < 0 THEN No(p1, p.pos) ELSE
    LET inner_start == start_pos + 1
        inner_end == inner_start + close
        p2 == slice_range(p1, inner_start, inner_end)
        inner == Text(p1, inner_start, inner_end)
        dot_pos == find_dotdot(inner)
    IN
    IF dot_pos < 0 \/ dot_pos = 0 THEN No(p2, p.pos) ELSE
    LET first == SubSeq(inner, 1, dot_pos)
        rest == SubSeq(inner, dot_pos + 3, Len(inner))
        dot2 == find_dotdot(rest)
    IN
    IF rest = <<>> THEN No(p2, p.pos)
    ELSE IF dot2 >= 0 /\ (dot2 = 0 \/ dot2 + 2 >= Len(rest)) THEN No(p2, p.pos)
    ELSE
    LET has_step == dot2 >= 0
        end_val == IF has_step THEN SubSeq(rest, 1, dot2) ELSE rest
        step_val == IF has_step THEN SubSeq(rest, dot2 + 3, Len(rest)) ELSE <<>>
    IN
    IF ~valid_range_val(first) \/ ~valid_range_val(end_val) THEN No(p2, p.pos)
    ELSE IF has_step /\ ~parse_i64_ok(step_val) THEN No(p2, p.pos)
    ELSE
    LET first_start == inner_start
        first_end == inner_start + dot_pos
        end_start == inner_start + dot_pos + 2
        end_end == IF has_step THEN end_start + dot2 ELSE inner_end
        p3 == bump_n(p2, inner_end + 1 - start_pos)
    IN
    IF peek(p3) = "{" THEN No(rewind(p3, start_pos), p3.pos)
    ELSE
    LET p4 == slice_range(p3, first_start, first_end)
        p5 == slice_range(p4, end_start, end_end)
        p6 == IF has_step THEN slice_range(p5, end_end + 2, inner_end) ELSE p5
    IN  [p |-> p6,
         v |-> BraceRange(first, end_val,
                          IF has_step THEN <<step_val>> ELSE <<>>),
         found |-> TRUE]

\* atom's `{` arm: br is what try_brace_range returned
BraceAtom(br) ==
    IF br.p.st # "ok" THEN Ret(br.p, <<>>)
    ELSE IF br.found THEN Ret(br.p, br.v)
    ELSE LET q == slice(bump(br.p), br.p.pos) IN
         Ret(q, Lit(Text(q, br.p.pos, q.pos)))

atom(p) ==
    LET b == peek(p) IN
    IF b = "$" THEN Call("dollar", p, <<>>)
    ELSE IF b = BS
    THEN LET q == bump(p) IN
         IF is_eof(q) THEN Ret(q, Lit(<<>>))
         ELSE LET e == slice(bump(q), q.pos) IN
              IF e.st # "ok" THEN Ret(e, <<>>)
              ELSE Ret(e, Escaped(Text(e, q.pos, e.pos)))
    ELSE IF b = "*" THEN Ret(bump(p), Unit("Star"))
    ELSE IF b = "?" THEN Ret(bump(p), Unit("Question"))
    ELSE IF b = "[" THEN Ret(bump(p), Unit("SquareOpen"))
    ELSE IF b = "]" THEN Ret(bump(p), Unit("SquareClose"))
    ELSE IF b = "~" THEN Ret(bump(p), Unit("Tilde"))
    ELSE IF b = "{" THEN BraceAtom(try_brace_range(p))
    ELSE IF b = BQ THEN Call("backtick", p, <<>>)
    ELSE LET q == slice(LitRun(p), p.pos) IN
         IF q.st # "ok" THEN Ret(q, <<>>)
         ELSE IF q.pos = p.pos THEN Fail(q, "unexpected character")
         ELSE Ret(q, Lit(Text(q, p.pos, q.pos)))

RECURSIVE AnsiCLoop(_, _)
AnsiCLoop(p, start) ==
    IF is_eof(p) THEN Fail(p, "unterminated ANSI-C quote")
    ELSE IF peek(p) = BS
    THEN LET q == bump(p) IN
         AnsiCLoop(IF ~is_eof(q) THEN bump(q) ELSE q, start)
    ELSE IF peek(p) = SQ
    THEN LET q == slice(p, start) IN
         IF q.st # "ok" THEN Ret(q, <<>>)
         ELSE Ret(bump(q), AnsiCQuoted(Text(p, start, p.pos)))
    ELSE AnsiCLoop(bump(p), start)

SpecialParam(b) ==
    CASE b = "@" -> "At" [] b = "*" -> "Star" [] b = "#" -> "Pound"
      [] b = "?" -> "Status" [] b = "$" -> "Pid" [] b = "!" -> "Bang"
      [] b = "-" -> "Dash"

\* num.parse::<u32>().unwrap_or(0), for numbers of at most nine digits
ParseU32(num) == from_str_radix_or0(num, 10)

read_param(p) ==
    LET b == peek(p) IN
    IF b \in {"@", "*", "#", "?", "$", "!", "-"}
    THEN Ret(bump(p), Unit(SpecialParam(b)))
    ELSE IF is_ascii_digit(b)
    THEN LET n == read_number(p) IN
         IF Bad(n) THEN n
         ELSE IF Len(n.v) > 9 THEN Unmodelled(n.p, "number of ten digits or more")
         ELSE Ret(n.p, Positional(ParseU32(n.v)))
    ELSE LET n == read_name(p) IN
         IF Bad(n) THEN n
         ELSE IF n.v = <<>> THEN Fail(n.p, "expected parameter name")
         ELSE Ret(n.p, Var(n.v))

Len_(param) == [k |-> "Len", param |-> param]

\* dollar's `${` arm, after the `{`: ${#param} and ${param}; indirection,
\* arrays and the operators of brace_param_op are not followed
DollarBraceParam(r) ==
    IF Bad(r) THEN r
    ELSE IF r.v.k = "Var" /\ peek(r.p) = "[" THEN Unmodelled(r.p, "${arr[...]}")
    ELSE IF peek(r.p) = "}" THEN Ret(bump(r.p), ParamAtom(r.v))
    ELSE Unmodelled(r.p, "brace_param_op")

DollarBraceLen(r) ==
    IF Bad(r) THEN r
    ELSE IF r.v.k = "Var" /\ peek(r.p) = "[" THEN Unmodelled(r.p, "${#arr[...]}")
    ELSE IF ~eat_ok(r.p, "}") THEN Fail(r.p, "expected '}'")
    ELSE Ret(eat(r.p, "}"), SubstAtom(Len_(r.v)))

DollarBrace(p2) ==
    IF peek(p2) = "!" THEN Unmodelled(p2, "${!...}")
    ELSE IF peek(p2) = "#" /\ peek_at(p2, 1) # "}"
    THEN DollarBraceLen(read_param(bump(p2)))
    ELSE DollarBraceParam(read_param(p2))

dollar(p) ==
    LET p1 == bump(p)
        b == peek(p1)
    IN
    IF b = "{" THEN DollarBrace(bump(p1))
    ELSE IF b = "("
    THEN IF peek_at(p1, 1) = "("
         THEN LET r == Call("arith_subst", bump_n(p1, 2), <<>>) IN
              IF Bad(r) THEN r ELSE Ret(r.p, SubstAtom(r.v))
         ELSE LET r == Call("cmd_subst", bump(p1), <<>>) IN
              IF Bad(r) THEN r ELSE Ret(r.p, SubstAtom(r.v))
    ELSE IF b = SQ THEN AnsiCLoop(bump(p1), p1.pos + 1)
    ELSE IF b \in {"@", "*", "#", "?", "$", "!", "-"}
    THEN Ret(bump(p1), ParamAtom(Unit(SpecialParam(b))))
    ELSE IF is_ascii_digit(b)
    THEN LET q == slice(bump(p1), p1.pos) IN
         IF q.st # "ok" THEN Ret(q, <<>>)
         ELSE Ret(q, ParamAtom(Positional(DigitVal(b))))
    ELSE LET r == read_name(p1) IN
         IF Bad(r) THEN r
         ELSE IF r.v = <<>> THEN Ret(r.p, Lit(<<"$">>))
         ELSE Ret(r.p, ParamAtom(Var(r.v)))

cmd_subst(p) ==
    LET r == Call("cmd_list", p, {<<")">>}) IN
    IF Bad(r) THEN r ELSE
    LET q == skip_blanks(r.p) IN
    IF ~eat_ok(q, ")") THEN Fail(q, "expected ')' for command substitution")
    ELSE Ret(eat(q, ")"), SubstCmd(r.v))

arith_subst(p) ==
    LET p1 == skip_blanks(p) IN
    IF peek(p1) = ")" /\ peek_at(p1, 1) = ")"
    THEN Ret(bump_n(p1, 2), SubstArith(<<>>))
    ELSE
    LET r == Call("arith", p1, 0) IN
    IF Bad(r) THEN r ELSE
    LET q == skip_blanks(r.p) IN
    IF peek(q) = ")" /\ peek_at(q, 1) = ")"
    THEN Ret(bump_n(q, 2), SubstArith(<<r.v>>))
    ELSE Fail(q, "expected '))' for arithmetic")

\* What a nested Parser::new(content) leaves behind in the parser that ran
\* it: its logs, and its error or panic (the `?` after the nested call).
Nested(p, sub) ==
    [p EXCEPT !.slices = @ \cup sub.slices,
              !.probes = @ \cup sub.probes,
              !.st = sub.st,
              !.epos = IF sub.st = "ok" THEN @ ELSE sub.epos,
              !.emsg = IF sub.st = "ok" THEN @ ELSE sub.emsg]

parse(p) == Call("cmd_list", p, {})

RECURSIVE BacktickScan(_)
BacktickScan(p) ==
    IF ~is_eof(p) /\ peek(p) # BQ
    THEN BacktickScan(bump(IF peek(p) = BS THEN bump(p) ELSE p))
    ELSE p

backtick(p) ==
    LET p1 == bump(p)
        start == p1.pos
        p2 == slice(BacktickScan(p1), start)
    IN
    IF p2.st # "ok" THEN Ret(p2, <<>>)
    ELSE IF ~eat_ok(p2, BQ) THEN Fail(p2, "unterminated backtick")
    ELSE LET sub == Call("parse", NewParser(Text(p2, start, p2.pos)), <<>>)
             p3 == Nested(eat(p2, BQ), sub.p)
         IN  IF p3.st # "ok" THEN Ret(p3, <<>>)
             ELSE Ret(p3, SubstAtom(SubstCmd(sub.v)))

-----------------------------------------------------------------------------
(* Redirects and heredocs.                                                 *)

Redir(kind, fd, w) == [k |-> kind, fd |-> fd, word |-> w]
Heredoc(body) == [k |-> "Heredoc", body |-> body]
HeredocLiteral(s) == [k |-> "Literal", s |-> s]
HeredocInterpolated(atoms) == [k |-> "Interpolated", atoms |-> atoms]

U16Max == 65535

\* fd_str.parse::<u16>().ok()
parse_fd(s) ==
    IF s = <<>> THEN None
    ELSE LET n == RadixVal(s, 10, 0) IN
         IF n < 0 \/ n > U16Max THEN None ELSE SomeOf(n)

RECURSIVE DelimDquoteScan(_)
DelimDquoteScan(p) ==
    IF ~is_eof(p) /\ peek(p) # DQ
    THEN DelimDquoteScan(bump(IF peek(p) = BS THEN bump(p) ELSE p))
    ELSE p

RECURSIVE DelimBareScan(_)
DelimBareScan(p) ==
    IF ~is_eof(p) /\ ~is_meta(peek(p)) THEN DelimBareScan(bump(p)) ELSE p

\* read_heredoc_delimiter: v is <<tag, quoted>>
read_heredoc_delimiter(p) ==
    IF peek(p) = SQ
    THEN LET r == scan_squote(bump(p)) IN
         IF Bad(r) THEN r ELSE Ret(r.p, <<r.v, TRUE>>)
    ELSE IF peek(p) = DQ
    THEN LET p1 == bump(p)
             p2 == slice(DelimDquoteScan(p1), p1.pos)
         IN  IF p2.st # "ok" THEN Ret(p2, <<>>)
             ELSE IF ~eat_ok(p2, DQ)
             THEN Fail(p2, "unterminated heredoc delimiter")
             ELSE Ret(eat(p2, DQ), <<Text(p2, p1.pos, p2.pos), TRUE>>)
    ELSE LET p2 == slice(DelimBareScan(p), p.pos) IN
         IF p2.st # "ok" THEN Ret(p2, <<>>)
         ELSE IF p2.pos = p.pos THEN Fail(p2, "expected heredoc delimiter")
         ELSE Ret(p2, <<Text(p2, p.pos, p2.pos), FALSE>>)

RECURSIVE trim_start_tabs(_)
trim_start_tabs(s) ==
    IF s # <<>> /\ s[1] = TAB THEN trim_start_tabs(Tail(s)) ELSE s

\* "Skip to end of current line" and step over its newline
SkipLine(p) == LET q == SkipToNewline(p) IN IF peek(q) = NL THEN bump(q) ELSE q

RECURSIVE HeredocScan(_, _, _)
\* "Read lines until delimiter": found, with the parser after the
\* delimiter line and where the body ends, or not found.
HeredocScan(p, tag, strip_tabs) ==
    IF is_eof(p) THEN [p |-> p, found |-> FALSE, body_end |-> 0]
    ELSE
    LET line_start == p.pos
        q == slice(SkipToNewline(p), line_start)
        line == Text(q, line_start, q.pos)
        trimmed == IF strip_tabs THEN trim_start_tabs(line) ELSE line
    IN
    IF q.st # "ok" THEN [p |-> q, found |-> FALSE, body_end |-> 0]
    ELSE IF trimmed = tag
    THEN [p |-> IF peek(q) = NL THEN bump(q) ELSE q,
          found |-> TRUE, body_end |-> line_start]
    ELSE HeredocScan(IF peek(q) = NL THEN bump(q) ELSE q, tag, strip_tabs)

RECURSIVE HeredocBodyLoop(_, _, _)
HeredocBodyLoop(p, atoms, lit_start) ==
    IF is_eof(p) THEN Flush(p, atoms, lit_start)
    ELSE IF peek(p) = "$"
    THEN LET f == Flush(p, atoms, lit_start) IN
         IF Bad(f) THEN f ELSE
         LET r == Call("dollar", f.p, <<>>) IN
         IF Bad(r) THEN r ELSE HeredocBodyLoop(r.p, Append(f.v, r.v), r.p.pos)
    ELSE IF peek(p) = BS
    THEN IF peek_at(p, 1) \in {"$", BS, BQ, NL}
         THEN LET f == Flush(p, atoms, lit_start) IN
              IF Bad(f) THEN f ELSE
              LET q == bump(f.p) IN
              IF peek(q) = NL THEN HeredocBodyLoop(bump(q), f.v, q.pos + 1)
              ELSE LET e == slice(bump(q), q.pos) IN
                   IF e.st # "ok" THEN Ret(e, <<>>)
                   ELSE HeredocBodyLoop(e,
                            Append(f.v, Escaped(Text(e, q.pos, e.pos))), e.pos)
         ELSE HeredocBodyLoop(bump(p), atoms, lit_start)
    ELSE IF peek(p) = BQ
    THEN LET f == Flush(p, atoms, lit_start) IN
         IF Bad(f) THEN f ELSE
         LET r == Call("backtick", f.p, <<>>) IN
         IF Bad(r) THEN r ELSE HeredocBodyLoop(r.p, Append(f.v, r.v), r.p.pos)
    ELSE HeredocBodyLoop(bump(p), atoms, lit_start)

parse_heredoc_body(p) == HeredocBodyLoop(p, <<>>, p.pos)

\* The (b'<', b'<') arm of try_redirect; p is on the first '<'.
\* The heredoc arm of try_redirect, in the order of the code.  HeredocParsed:
\* from `Parser::new(body).parse_heredoc_body()?`, which returned sub.
HeredocParsed(p5, sub) ==
    IF Nested(p5, sub.p).st # "ok" THEN Ret(Nested(p5, sub.p), <<>>)
    ELSE Ret(Nested(p5, sub.p), Heredoc(HeredocInterpolated(sub.v)))

\* From `let heredoc_body = if quoted`, with the resume position saved in p5
HeredocSaved(quoted, body, p5) ==
    IF p5.st # "ok" THEN Ret(p5, <<>>)
    ELSE IF quoted THEN Ret(p5, Heredoc(HeredocLiteral(body)))
    ELSE HeredocParsed(p5, Call("parse_heredoc_body", NewParser(body), <<>>))

\* From `let after_heredoc = self.lex.pos()`: p4 is the parser after
\* slice_range(body_start, body_end)
HeredocSliced(quoted, save_pos, body_start, body_end, p4) ==
    HeredocSaved(quoted, Text(p4, body_start, body_end),
                 [set_pos(p4, save_pos) EXCEPT
                    !.heredoc_resume = SomeOf(p4.pos),
                    !.hd = Append(@, [body_start |-> body_start,
                                      body_end |-> body_end,
                                      after |-> p4.pos,
                                      pending |-> p4.heredoc_resume.some])])

\* From `if !found`: sc is what the scan for the delimiter line found
HeredocScanned(quoted, save_pos, body_start, sc) ==
    IF sc.p.st # "ok" THEN Ret(sc.p, <<>>)
    ELSE IF ~sc.found THEN Fail(sc.p, "unterminated heredoc")
    ELSE HeredocSliced(quoted, save_pos, body_start, sc.body_end,
                       slice_range(sc.p, body_start, sc.body_end))

\* From `let body_start = self.lex.pos()`: p3 is at the line after the head
HeredocBodyAt(tag, quoted, strip_tabs, save_pos, p3) ==
    HeredocScanned(quoted, save_pos, p3.pos, HeredocScan(p3, tag, strip_tabs))

\* From `let save_pos = self.lex.pos()`: d is what read_heredoc_delimiter
\* returned
HeredocTagged(strip_tabs, d) ==
    IF Bad(d) THEN d
    ELSE HeredocBodyAt(d.v[1], d.v[2], strip_tabs, d.p.pos, SkipLine(d.p))

HeredocOpened(p1) ==
    HeredocTagged(eat_ok(p1, "-"), read_heredoc_delimiter(skip_blanks(eat(p1, "-"))))

HeredocRedirect(p) == HeredocOpened(bump_n(p, 2))

\* `word` after a redirect operator of n bytes
RedirWord(p, n, kind, fd) ==
    LET r == Call("word", skip_blanks(bump_n(p, n)), <<>>) IN
    IF Bad(r) THEN r ELSE Ret(r.p, Redir(kind, fd, r.v))

\* try_redirect: Ok(Some(redir)) is [found |-> TRUE], Ok(None) is
\* [found |-> FALSE], Err is a parser that is not "ok".  RedirectMatch is its
\* match on the bytes b, b2, b3 at the cursor of q, after the fd number.
RedirectMatch(entry, start, q, fd, b, b2, b3) ==
    LET Some(r) == IF Bad(r) THEN r ELSE [p |-> r.p, v |-> r.v, found |-> TRUE]
        No == [p |-> NoMatch(rewind(q, start), "try_redirect", entry, q.pos),
               v |-> <<>>, found |-> FALSE]
    IN
    IF q.st # "ok" THEN Ret(q, <<>>)
    ELSE IF b = "<" /\ b2 = "<" /\ b3 = "<"
    THEN LET r == Call("word", skip_blanks(bump_n(q, 3)), <<>>) IN
         IF Bad(r) THEN r
         ELSE [p |-> r.p, v |-> [k |-> "HereString", word |-> r.v],
               found |-> TRUE]
    ELSE IF b = "<" /\ b2 = "<" THEN Some(HeredocRedirect(q))
    ELSE IF b = "<" /\ b2 = ">" THEN Some(RedirWord(q, 2, "ReadWrite", fd))
    ELSE IF b = "<" /\ b2 = "&" THEN Some(RedirWord(q, 2, "DupRead", fd))
    ELSE IF b = "<" /\ b2 = "(" /\ ~fd.some THEN No
    ELSE IF b = "<" THEN Some(RedirWord(q, 1, "Read", fd))
    ELSE IF b = ">" /\ b2 = ">" /\ b3 = "|" THEN No
    ELSE IF b = ">" /\ b2 = ">" THEN Some(RedirWord(q, 2, "Append", fd))
    ELSE IF b = ">" /\ b2 = "|" THEN Some(RedirWord(q, 2, "Clobber", fd))
    ELSE IF b = ">" /\ b2 = "&" THEN Some(RedirWord(q, 2, "DupWrite", fd))
    ELSE IF b = ">" /\ b2 = "(" /\ ~fd.some THEN No
    ELSE IF b = ">" THEN Some(RedirWord(q, 1, "Write", fd))
    ELSE IF b = "&" /\ b2 = ">" /\ ~fd.some
    THEN LET p1 == bump_n(q, 2) IN
         IF eat_ok(p1, ">")
         THEN Some(RedirWord(p1, 1, "AppendAll", None))
         ELSE Some(RedirWord(p1, 0, "WriteAll", None))
    ELSE No

\* try_redirect from the optional fd number n that read_number returned
RedirectAfterFd(entry, start, n) ==
    RedirectMatch(entry, start, n.p, parse_fd(n.v),
                  peek(n.p), peek_at(n.p, 1), peek_at(n.p, 2))

RedirectFrom(entry, p0) == RedirectAfterFd(entry, p0.pos, read_number(p0))

try_redirect(p) == RedirectFrom(p.pos, skip_blanks(p))

RECURSIVE CollectRedirectsLoop(_, _)
CollectRedirectsLoop(p, redirects) ==
    LET r == Call("try_redirect", skip_blanks(p), <<>>) IN
    IF Bad(r) THEN r
    ELSE IF ~r.found THEN Ret(r.p, redirects)
    ELSE CollectRedirectsLoop(r.p, Append(redirects, r.v))

collect_redirects(p) == CollectRedirectsLoop(p, <<>>)

-----------------------------------------------------------------------------
(* Simple commands.                                                        *)

RECURSIVE ArrayElementsLoop(_, _)
ArrayElementsLoop(p, words) ==
    LET q == skip_blanks(p) IN
    IF peek(q) = ")" THEN Ret(bump(q), words)
    ELSE IF is_eof(q) THEN Fail(q, "unterminated array")
    ELSE LET r == Call("word", q, <<>>) IN
         IF Bad(r) THEN r ELSE ArrayElementsLoop(r.p, Append(words, r.v))

array_elements(p) == ArrayElementsLoop(p, <<>>)

try_assignment(p) ==
    LET start == p.pos
        n == read_name(p)
        name == n.v
        q == n.p
        No == [p |-> NoMatch(rewind(q, start), "try_assignment", start, q.pos),
               v |-> <<>>, found |-> FALSE]
        is_append == peek(q) = "+" /\ peek_at(q, 1) = "="
    IN
    IF q.st # "ok" THEN Ret(q, <<>>)
    ELSE IF name = <<>> THEN No
    ELSE IF ~is_append /\ peek(q) # "=" THEN No
    ELSE
    LET p1 == IF is_append THEN bump_n(q, 2) ELSE bump(q) IN
    IF peek(p1) = "("
    THEN LET r == array_elements(bump(p1)) IN
         IF Bad(r) THEN r
         ELSE [p |-> r.p,
               v |-> [k |-> IF is_append THEN "ArrayAppend" ELSE "ArrayAssign",
                      name |-> name, words |-> r.v],
               found |-> TRUE]
    ELSE IF peek(p1) = NUL \/ is_meta(peek(p1))
    THEN [p |-> p1, v |-> [k |-> "Assign", name |-> name, value |-> <<>>],
          found |-> TRUE]
    ELSE LET r == Call("word", p1, <<>>) IN
         IF Bad(r) THEN r
         ELSE [p |-> r.p,
               v |-> [k |-> "Assign", name |-> name, value |-> <<r.v>>],
               found |-> TRUE]

PrefixRedirect(redir) == [k |-> "Redirect", redir |-> redir]
SuffixRedirect(redir) == [k |-> "Redirect", redir |-> redir]
SuffixWord(w) == [k |-> "Word", word |-> w]
SimpleCmd(prefix, suffix) == [prefix |-> prefix, suffix |-> suffix]

RECURSIVE SimpleCmdLoop(_, _, _, _)
SimpleCmdLoop(p, prefix, suffix, saw_word) ==
    LET p1 == skip_blanks(p) IN
    IF at_terminator(p1) THEN Ret(p1, SimpleCmd(prefix, suffix))
    ELSE
    LET r == Call("try_redirect", p1, <<>>) IN
    IF Bad(r) THEN r
    ELSE IF r.found
    THEN IF saw_word
         THEN SimpleCmdLoop(r.p, prefix, Append(suffix, SuffixRedirect(r.v)),
                            saw_word)
         ELSE SimpleCmdLoop(r.p, Append(prefix, PrefixRedirect(r.v)), suffix,
                            saw_word)
    ELSE
    LET a == IF saw_word THEN [p |-> r.p, v |-> <<>>, found |-> FALSE]
             ELSE Call("try_assignment", r.p, <<>>)
    IN
    IF Bad(a) THEN a
    ELSE IF a.found THEN SimpleCmdLoop(a.p, Append(prefix, a.v), suffix, saw_word)
    ELSE LET w == Call("word", a.p, <<>>) IN
         IF Bad(w) THEN w
         ELSE SimpleCmdLoop(w.p, prefix, Append(suffix, SuffixWord(w.v)), TRUE)

simple_cmd(p) == SimpleCmdLoop(p, <<>>, <<>>, FALSE)

-----------------------------------------------------------------------------
(* Commands, pipelines, and-or lists.                                      *)

ExecSimple(c) == [k |-> "Simple", cmd |-> c]
ExecCompound(kind, redirects) ==
    [k |-> "Compound", kind |-> kind, redirects |-> redirects]
Brace(body) == [k |-> "Brace", body |-> body]
Subshell(body) == [k |-> "Subshell", body |-> body]
PipeSingle(e) == [k |-> "Single", negated |-> FALSE, cmds |-> <<e>>]
Pipe(negated, es) == [k |-> "Pipe", negated |-> negated, cmds |-> es]
AndOrList(first, rest) == [first |-> first, rest |-> rest]
And(pl) == [k |-> "And", pipeline |-> pl]
Or(pl) == [k |-> "Or", pipeline |-> pl]
CmdJob(list) == [k |-> "Job", list |-> list]
CmdList(list) == [k |-> "List", list |-> list]

wrap_compound(p, kind) ==
    LET r == Call("collect_redirects", p, <<>>) IN
    IF Bad(r) THEN r ELSE Ret(r.p, ExecCompound(kind, r.v))

brace_group(p) ==
    LET r == Call("cmd_list", skip_separators(eat(p, "{")), {<<"}">>}) IN
    IF Bad(r) THEN r ELSE
    LET q == skip_blanks(r.p) IN
    IF ~eat_ok(q, "}") THEN Fail(q, "expected '}'")
    ELSE Ret(eat(q, "}"), Brace(r.v))

subshell(p) ==
    LET r == Call("cmd_list", skip_separators(eat(p, "(")), {<<")">>}) IN
    IF Bad(r) THEN r ELSE
    LET q == skip_blanks(r.p) IN
    IF ~eat_ok(q, ")") THEN Fail(q, "expected ')'")
    ELSE Ret(eat(q, ")"), Subshell(r.v))

RECURSIVE NameEnd(_, _)
NameEnd(src, j) ==
    IF j < Len(src) /\ (is_ascii_alphanumeric(src[j + 1]) \/ src[j + 1] = "_")
    THEN NameEnd(src, j + 1) ELSE j

RECURSIVE BlanksEnd(_, _)
BlanksEnd(src, j) ==
    IF j < Len(src) /\ src[j + 1] \in {SP, TAB} THEN BlanksEnd(src, j + 1) ELSE j

KwFunction == <<"f", "u", "n", "c", "t", "i", "o", "n">>

\* at_func_def: v is the answer; the parser carries the remaining() call
at_func_def(p) ==
    IF at_keyword(p, KwFunction) THEN Ret(p, TRUE)
    ELSE
    LET q == remaining(p)
        src == Text(q, p.pos, Len(p.src))
    IN
    IF q.st # "ok" THEN Ret(q, FALSE)
    ELSE IF src = <<>> \/ ~(is_ascii_alphabetic(src[1]) \/ src[1] = "_")
    THEN Ret(q, FALSE)
    ELSE LET j == BlanksEnd(src, NameEnd(src, 1)) IN
         Ret(q, j < Len(src) /\ src[j + 1] = "(")

\* The compound commands introduced by a keyword
CompoundKeywords ==
    {<<"f", "o", "r">>, <<"w", "h", "i", "l", "e">>, <<"u", "n", "t", "i", "l">>,
     <<"i", "f">>, <<"c", "a", "s", "e">>, <<"[", "[">>}

KwSelect == <<"s", "e", "l", "e", "c", "t">>
KwFor == <<"f", "o", "r">>
KwDo == <<"d", "o">>
KwDone == <<"d", "o", "n", "e">>

CFor(init, cond, step, body) ==
    [k |-> "CFor", init |-> init, cond |-> cond, step |-> step, body |-> body]

CForHead(init, cond, step) == [init |-> init, cond |-> cond, step |-> step]

\* c_style_for at the closing `))`; init, cond and step are <<>> (None) or
\* <<expr>>
CForClose(p, init, cond, step) ==
    IF ~(peek(skip_blanks(p)) = ")" /\ peek_at(skip_blanks(p), 1) = ")")
    THEN Fail(skip_blanks(p), "expected '))' in C-style for")
    ELSE Ret(bump_n(skip_blanks(p), 2), CForHead(init, cond, step))

CForStepParsed(r, init, cond) ==
    IF Bad(r) THEN r ELSE CForClose(r.p, init, cond, <<r.v>>)

\* c_style_for from the `;` after the condition on
CForStep(p, init, cond) ==
    IF ~eat_ok(skip_blanks(p), ";")
    THEN Fail(skip_blanks(p), "expected ';' in C-style for")
    ELSE IF peek(skip_blanks(eat(skip_blanks(p), ";"))) = ")"
            /\ peek_at(skip_blanks(eat(skip_blanks(p), ";")), 1) = ")"
    THEN CForClose(skip_blanks(eat(skip_blanks(p), ";")), init, cond, <<>>)
    ELSE CForStepParsed(Call("arith", skip_blanks(eat(skip_blanks(p), ";")), 0),
                        init, cond)

CForCondParsed(r, init) ==
    IF Bad(r) THEN r ELSE CForStep(r.p, init, <<r.v>>)

\* c_style_for from the `;` after the initializer on
CForCond(p, init) ==
    IF ~eat_ok(skip_blanks(p), ";")
    THEN Fail(skip_blanks(p), "expected ';' in C-style for")
    ELSE IF peek(skip_blanks(eat(skip_blanks(p), ";"))) = ";"
    THEN CForStep(skip_blanks(eat(skip_blanks(p), ";")), init, <<>>)
    ELSE CForCondParsed(Call("arith", skip_blanks(eat(skip_blanks(p), ";")), 0),
                        init)

CForInitParsed(r) ==
    IF Bad(r) THEN r ELSE CForCond(r.p, <<r.v>>)

\* c_style_for up to and including `))`
CForHeader(p) ==
    IF peek(skip_blanks(bump_n(p, 2))) = ";"
    THEN CForCond(skip_blanks(bump_n(p, 2)), <<>>)
    ELSE CForInitParsed(Call("arith", skip_blanks(bump_n(p, 2)), 0))

\* c_style_for after the body: r is what cmd_list returned
CForDone(r, h) ==
    IF Bad(r) THEN r
    ELSE IF expect(r.p, KwDone, "expected 'done' to close for loop").st # "ok"
    THEN Ret(expect(r.p, KwDone, "expected 'done' to close for loop"), <<>>)
    ELSE Ret(expect(r.p, KwDone, "expected 'done' to close for loop"),
             CFor(h.init, h.cond, h.step, r.v))

\* c_style_for from `do` on: q is the parser after expect("do")
CForDo(q, h) ==
    IF q.st # "ok" THEN Ret(q, <<>>)
    ELSE CForDone(Call("cmd_list", q, {KwDone}), h)

\* c_style_for after the header h
CForBody(h) ==
    IF Bad(h) THEN h
    ELSE CForDo(expect(eat_separator(h.p), KwDo,
                       "expected 'do' after for((...)) header"),
                h.v)

c_style_for(p) == CForBody(CForHeader(p))

\* for_cmd; `for name [in words]` is not followed
for_cmd(p) ==
    IF peek(skip_blanks(eat_str(p, KwFor))) = "("
           /\ peek_at(skip_blanks(eat_str(p, KwFor)), 1) = "("
    THEN c_style_for(skip_blanks(eat_str(p, KwFor)))
    ELSE Unmodelled(p, "for name in words")

KwCase == <<"c", "a", "s", "e">>
KwIn == <<"i", "n">>
KwEsac == <<"e", "s", "a", "c">>

Case(w, arms) == [k |-> "Case", word |-> w, arms |-> arms]

CaseArm(patterns, body) == [patterns |-> patterns, body |-> body]

\* A turn of a loop has ended with the cursor and heredoc_resume as they
\* were when it began and the loop goes on: every later turn is the same
\* turn, the loop never ends (p.st = "hang")
Hang(p, what) == [p EXCEPT !.st = "hang", !.epos = p.pos, !.emsg = what]

NoProgress(before, after) ==
    after.pos = before.pos /\ after.heredoc_resume = before.heredoc_resume

RECURSIVE CaseBodySeparators(_)
\* case_body: "Skip separators but preserve ;; and ;&"
CaseBodySeparators(p) ==
    IF peek(skip_blanks(p)) = ";" /\ peek_at(skip_blanks(p), 1) \in {";", "&"}
    THEN skip_blanks(p)
    ELSE IF peek(skip_blanks(p)) \in {";", NL}
    THEN CaseBodySeparators(bump(skip_blanks(p)))
    ELSE IF peek(skip_blanks(p)) = "#"
    THEN CaseBodySeparators(skip_comment(skip_blanks(p)))
    ELSE skip_blanks(p)

\* case_body, `cmds.push(self.cmd()?)` and the next turn of the loop; the
\* turn began at q, r is what cmd() returned
CaseBodyPush(q, r, acc) ==
    IF Bad(r) THEN r
    ELSE IF NoProgress(q, r.p) THEN Ret(Hang(r.p, "case_body"), <<>>)
    ELSE Call("case_body", r.p, Append(acc, r.v))

\* One turn of case_body's loop on the parser q that the separators left
CaseBodyTurn(q, acc) ==
    IF is_eof(q) \/ at_keyword(q, KwEsac) THEN Ret(q, acc)
    ELSE IF peek(q) = ";" /\ peek_at(q, 1) \in {";", "&"} THEN Ret(q, acc)
    ELSE CaseBodyPush(q, Call("cmd", q, <<>>), acc)

\* case_body with the commands collected so far
case_body(p, acc) == CaseBodyTurn(CaseBodySeparators(p), acc)

RECURSIVE CasePatterns(_, _)
\* case_cmd: `while self.lex.eat(b'|')`, r the last pattern read
CasePatterns(r, patterns) ==
    IF Bad(r) THEN r
    ELSE IF peek(skip_blanks(r.p)) = "|"
    THEN CasePatterns(Call("word", skip_blanks(bump(skip_blanks(r.p))), <<>>),
                      Append(patterns, r.v))
    ELSE Ret(skip_blanks(r.p), Append(patterns, r.v))

RECURSIVE CaseNewlines(_)
\* case_cmd: `while self.lex.peek() == b'\n'`
CaseNewlines(p) == IF peek(p) = NL THEN CaseNewlines(skip_blanks(bump(p))) ELSE p

\* case_cmd after the body of an arm: `;;` is eaten, `;;&` and `;&` are errors
CaseArmEnd(q) ==
    IF peek(q) = ";" /\ peek_at(q, 1) = ";"
    THEN IF peek_at(q, 2) = "&" THEN Err(q, "unsupported: case ;;&")
         ELSE skip_separators(bump_n(q, 2))
    ELSE IF peek(q) = ";" /\ peek_at(q, 1) = "&"
    THEN Err(q, "unsupported: case fallthrough ;&")
    ELSE skip_separators(q)

\* case_cmd, the end of a turn of the loop over the arms: the turn began at
\* `start`, q is the parser after the arm
CaseArmPush(start, q, w, arms, arm) ==
    IF q.st # "ok" THEN Ret(q, <<>>)
    ELSE IF NoProgress(start, q) /\ ~at_keyword(q, KwEsac) /\ ~is_eof(q)
    THEN Ret(Hang(q, "case_cmd"), <<>>)
    ELSE Call("case_arms", q, [word |-> w, arms |-> Append(arms, arm)])

\* case_cmd from case_body on; b is what case_body returned
CaseArmBody(start, b, w, arms, patterns) ==
    IF Bad(b) THEN b
    ELSE CaseArmPush(start, CaseArmEnd(skip_blanks(b.p)), w, arms,
                     CaseArm(patterns, b.v))

\* case_cmd from the `)` after the patterns on
CaseArmPatterns(start, r, w, arms) ==
    IF Bad(r) THEN r
    ELSE CaseArmBody(start,
                     Call("case_body", CaseNewlines(skip_blanks(eat(skip_blanks(r.p), ")"))),
                          <<>>),
                     w, arms, r.v)

\* case_cmd's loop over the arms
CaseArms(p, w, arms) ==
    IF at_keyword(p, KwEsac) \/ is_eof(p)
    THEN IF expect(p, KwEsac, "expected 'esac' to close case statement").st # "ok"
         THEN Ret(expect(p, KwEsac, "expected 'esac' to close case statement"), <<>>)
         ELSE Ret(expect(p, KwEsac, "expected 'esac' to close case statement"),
                  Case(w, arms))
    ELSE CaseArmPatterns(p,
             CasePatterns(Call("word", skip_blanks(eat(skip_blanks(p), "(")), <<>>), <<>>),
             w, arms)

\* case_cmd after the w
CaseIn(r) ==
    IF Bad(r) THEN r
    ELSE IF expect(skip_blanks(r.p), KwIn, "expected 'in' after case word").st # "ok"
    THEN Ret(expect(skip_blanks(r.p), KwIn, "expected 'in' after case word"), <<>>)
    ELSE CaseArms(skip_separators(expect(skip_blanks(r.p), KwIn,
                                         "expected 'in' after case word")),
                  r.v, <<>>)

case_cmd(p) == CaseIn(Call("word", skip_blanks(eat_str(p, KwCase)), <<>>))

WrapKind(r) == IF Bad(r) THEN r ELSE wrap_compound(r.p, r.v)

executable(p) ==
    LET p1 == skip_blanks(p)
        b == peek(p1)
    IN
    IF b = "(" /\ peek_at(p1, 1) = "(" THEN Unmodelled(p1, "(( ))")
    ELSE IF b = "{" /\ is_meta(peek_at(p1, 1))
    THEN LET r == brace_group(p1) IN
         IF Bad(r) THEN r ELSE wrap_compound(r.p, r.v)
    ELSE IF b = "(" /\ peek_at(p1, 1) # "("
    THEN LET r == subshell(p1) IN
         IF Bad(r) THEN r ELSE wrap_compound(r.p, r.v)
    ELSE IF at_keyword(p1, KwFor) THEN WrapKind(for_cmd(p1))
    ELSE IF at_keyword(p1, KwCase) THEN WrapKind(case_cmd(p1))
    ELSE IF at_any_keyword(p1, CompoundKeywords)
    THEN Unmodelled(p1, "compound keyword")
    ELSE IF at_keyword(p1, KwSelect) THEN Fail(p1, "unsupported: select loop")
    ELSE
    LET f == at_func_def(p1) IN
    IF Bad(f) THEN f
    ELSE IF f.v THEN Unmodelled(f.p, "function definition")
    ELSE LET r == Call("simple_cmd", f.p, <<>>) IN
         IF Bad(r) THEN r ELSE Ret(r.p, ExecSimple(r.v))

\* Redir::DupWrite(Some(2), "1"), the `2>&1` that `|&` stands for
Redir2to1 == Redir("DupWrite", SomeOf(2), MkWord(<<Bare(Lit(<<"1">>))>>))

\* Variant: the redirect goes in front of a simple command
add_redirect_to_exec_AsPrefix(exec, redir) ==
    IF exec.k = "Simple"
    THEN [exec EXCEPT !.cmd.prefix = Append(@, SuffixRedirect(redir))]
    ELSE [exec EXCEPT !.redirects = Append(@, redir)]

add_redirect_to_exec(exec, redir) ==
    IF exec.k = "Simple"
    THEN [exec EXCEPT !.cmd.suffix = Append(@, SuffixRedirect(redir))]
    ELSE [exec EXCEPT !.redirects = Append(@, redir)]

RECURSIVE PipelineLoop(_, _, _)
PipelineLoop(p, negated, es) ==
    IF peek(p) = "|" /\ peek_at(p, 1) # "|"
    THEN LET pipe_stderr == peek_at(p, 1) = "&"
             p1 == IF pipe_stderr THEN bump_n(p, 2) ELSE bump(p)
             es1 == IF pipe_stderr
                    THEN [es EXCEPT ![Len(es)] = add_redirect_to_exec(@, Redir2to1)]
                    ELSE es
             r == Call("executable", skip_separators(p1), <<>>)
         IN  IF Bad(r) THEN r
             ELSE PipelineLoop(skip_blanks(r.p), negated, Append(es1, r.v))
    ELSE Ret(p, Pipe(negated, es))

pipeline(p) ==
    LET p1 == skip_blanks(p)
        negated == peek(p1) = "!" /\ is_meta(peek_at(p1, 1))
        p2 == IF negated THEN skip_blanks(bump(p1)) ELSE p1
        r == Call("executable", p2, <<>>)
    IN
    IF Bad(r) THEN r ELSE
    LET q == skip_blanks(r.p) IN
    IF peek(q) # "|" \/ peek_at(q, 1) = "|"
    THEN Ret(q, IF negated THEN Pipe(TRUE, <<r.v>>) ELSE PipeSingle(r.v))
    ELSE PipelineLoop(q, negated, <<r.v>>)

RECURSIVE AndOrLoop(_, _, _)
AndOrLoop(p, first, rest) ==
    LET p1 == skip_blanks(p) IN
    IF peek(p1) = "&" /\ peek_at(p1, 1) = "&"
    THEN LET r == Call("pipeline", skip_separators(bump_n(p1, 2)), <<>>) IN
         IF Bad(r) THEN r ELSE AndOrLoop(r.p, first, Append(rest, And(r.v)))
    ELSE IF peek(p1) = "|" /\ peek_at(p1, 1) = "|"
    THEN LET r == Call("pipeline", skip_separators(bump_n(p1, 2)), <<>>) IN
         IF Bad(r) THEN r ELSE AndOrLoop(r.p, first, Append(rest, Or(r.v)))
    ELSE Ret(p1, AndOrList(first, rest))

and_or(p) ==
    LET r == Call("pipeline", p, <<>>) IN
    IF Bad(r) THEN r ELSE AndOrLoop(r.p, r.v, <<>>)

\* heredoc_resume.take() followed by set_pos
TakeResume(p) ==
    IF p.heredoc_resume.some
    THEN [p EXCEPT !.pos = p.heredoc_resume.v,
                   !.heredoc_resume = None,
                   !.takes = @ + 1]
    ELSE p

cmd(p) ==
    LET r == Call("and_or", [p EXCEPT !.starts = @ \cup {p.pos}], <<>>) IN
    IF Bad(r) THEN r ELSE
    LET p1 == TakeResume(skip_blanks(r.p))
        p2 == eat(p1, "&")
    IN  IF eat_ok(p1, "&") /\ peek(p2) # "&" /\ peek(p2) # ">"
        THEN Ret(p2, CmdJob(r.v))
        ELSE Ret(p2, CmdList(r.v))

\* One turn of cmd_list's loop: done, or one more command in v.
\* cmd_list's loop body from `let start = self.lex.pos()`: r is what
\* self.cmd() returned
CmdListPush(start, r) ==
    IF Bad(r) THEN [p |-> r.p, v |-> <<>>, done |-> TRUE]
    ELSE IF r.p.pos = start
    THEN [p |-> Err(r.p, "unexpected token"), v |-> <<>>, done |-> TRUE]
    ELSE [p |-> r.p, v |-> <<r.v>>, done |-> FALSE]

\* One turn of cmd_list's loop on the parser q that skip_separators left
CmdListTurn(q, terminators) ==
    IF is_eof(q) THEN [p |-> q, v |-> <<>>, done |-> TRUE]
    ELSE IF terminators # {} /\ at_any_keyword(q, terminators)
    THEN [p |-> q, v |-> <<>>, done |-> TRUE]
    ELSE IF peek(q) = "#" THEN [p |-> skip_comment(q), v |-> <<>>, done |-> FALSE]
    ELSE CmdListPush(q.pos, Call("cmd", q, <<>>))

CmdListStep(p, terminators) == CmdListTurn(skip_separators(p), terminators)

RECURSIVE CmdListLoop(_, _, _)
CmdListLoop(p, terminators, acc) ==
    LET s == CmdListStep(p, terminators) IN
    IF s.done THEN Ret(s.p, acc)
    ELSE CmdListLoop(s.p, terminators, acc \o s.v)

cmd_list(p, terminators) == CmdListLoop(p, terminators, <<>>)

-----------------------------------------------------------------------------
(* Arithmetic (Pratt parser).                                              *)

InfixOp(prec, len, kind) == [some |-> TRUE, prec |-> prec, len |-> len, kind |-> kind]
NoInfixOp == [some |-> FALSE, prec |-> 0, len |-> 0, kind |-> ""]

arith_infix_op_MulBelowAdd(p) ==
    LET b1 == peek(p)
        b2 == peek_at(p, 1)
        b3 == peek_at(p, 2)
    IN
    IF (b1 = "<" /\ b2 = "<" /\ b3 = "=") \/ (b1 = ">" /\ b2 = ">" /\ b3 = "=")
    THEN NoInfixOp
    ELSE IF b1 = "|" /\ b2 = "|" THEN InfixOp(1, 2, "LogOr")
    ELSE IF b1 = "&" /\ b2 = "&" THEN InfixOp(2, 2, "LogAnd")
    ELSE IF b1 = "=" /\ b2 = "=" THEN InfixOp(7, 2, "Eq")
    ELSE IF b1 = "!" /\ b2 = "=" THEN InfixOp(7, 2, "Ne")
    ELSE IF b1 = "<" /\ b2 = "=" THEN InfixOp(8, 2, "Le")
    ELSE IF b1 = ">" /\ b2 = "=" THEN InfixOp(8, 2, "Ge")
    ELSE IF b1 = "<" /\ b2 = "<" THEN InfixOp(9, 2, "Shl")
    ELSE IF b1 = ">" /\ b2 = ">" THEN InfixOp(9, 2, "Shr")
    ELSE IF b1 = "*" /\ b2 = "*" THEN InfixOp(13, 2, "Pow")
    ELSE IF b1 \in {"+", "-", "*", "/", "%"} /\ b2 = "=" THEN NoInfixOp
    ELSE IF b1 = "|" THEN InfixOp(3, 1, "BitOr")
    ELSE IF b1 = "^" THEN InfixOp(4, 1, "BitXor")
    ELSE IF b1 = "&" THEN InfixOp(5, 1, "BitAnd")
    ELSE IF b1 = "<" THEN InfixOp(8, 1, "Lt")
    ELSE IF b1 = ">" THEN InfixOp(8, 1, "Gt")
    ELSE IF b1 = "+" /\ b2 # "+" THEN InfixOp(10, 1, "Add")
    ELSE IF b1 = "-" /\ b2 # "-" THEN InfixOp(10, 1, "Sub")
    ELSE IF b1 = "*" /\ b2 # "*" THEN InfixOp(6, 1, "Mul")
    ELSE IF b1 = "/" THEN InfixOp(6, 1, "Div")
    ELSE IF b1 = "%" THEN InfixOp(6, 1, "Rem")
    ELSE IF b1 = "?" THEN InfixOp(0, 1, "Ternary")
    ELSE IF b1 = "=" /\ b2 # "=" THEN InfixOp(0, 1, "Assign")
    ELSE NoInfixOp

arith_infix_op(p) ==
    LET b1 == peek(p)
        b2 == peek_at(p, 1)
        b3 == peek_at(p, 2)
    IN
    IF (b1 = "<" /\ b2 = "<" /\ b3 = "=") \/ (b1 = ">" /\ b2 = ">" /\ b3 = "=")
    THEN NoInfixOp
    ELSE IF b1 = "|" /\ b2 = "|" THEN InfixOp(1, 2, "LogOr")
    ELSE IF b1 = "&" /\ b2 = "&" THEN InfixOp(2, 2, "LogAnd")
    ELSE IF b1 = "=" /\ b2 = "=" THEN InfixOp(7, 2, "Eq")
    ELSE IF b1 = "!" /\ b2 = "=" THEN InfixOp(7, 2, "Ne")
    ELSE IF b1 = "<" /\ b2 = "=" THEN InfixOp(8, 2, "Le")
    ELSE IF b1 = ">" /\ b2 = "=" THEN InfixOp(8, 2, "Ge")
    ELSE IF b1 = "<" /\ b2 = "<" THEN InfixOp(9, 2, "Shl")
    ELSE IF b1 = ">" /\ b2 = ">" THEN InfixOp(9, 2, "Shr")
    ELSE IF b1 = "*" /\ b2 = "*" THEN InfixOp(13, 2, "Pow")
    ELSE IF b1 \in {"+", "-", "*", "/", "%"} /\ b2 = "=" THEN NoInfixOp
    ELSE IF b1 = "|" THEN InfixOp(3, 1, "BitOr")
    ELSE IF b1 = "^" THEN InfixOp(4, 1, "BitXor")
    ELSE IF b1 = "&" THEN InfixOp(5, 1, "BitAnd")
    ELSE IF b1 = "<" THEN InfixOp(8, 1, "Lt")
    ELSE IF b1 = ">" THEN InfixOp(8, 1, "Gt")
    ELSE IF b1 = "+" /\ b2 # "+" THEN InfixOp(10, 1, "Add")
    ELSE IF b1 = "-" /\ b2 # "-" THEN InfixOp(10, 1, "Sub")
    ELSE IF b1 = "*" /\ b2 # "*" THEN InfixOp(11, 1, "Mul")
    ELSE IF b1 = "/" THEN InfixOp(11, 1, "Div")
    ELSE IF b1 = "%" THEN InfixOp(11, 1, "Rem")
    ELSE IF b1 = "?" THEN InfixOp(0, 1, "Ternary")
    ELSE IF b1 = "=" /\ b2 # "=" THEN InfixOp(0, 1, "Assign")
    ELSE NoInfixOp

check_postfix(p, name) ==
    IF peek(p) = "+" /\ peek_at(p, 1) = "+"
    THEN Ret(bump_n(p, 2), ANamed("PostInc", name))
    ELSE IF peek(p) = "-" /\ peek_at(p, 1) = "-"
    THEN Ret(bump_n(p, 2), ANamed("PostDec", name))
    ELSE Ret(p, AVar(name))

CompoundAssignKind(b) ==
    CASE b = "+" -> "Add" [] b = "-" -> "Sub" [] b = "*" -> "Mul"
      [] b = "/" -> "Div" [] OTHER -> "Rem"

RECURSIVE ArithLoop(_, _, _)
ArithLoop(p, left, min_prec) ==
    LET p1 == skip_blanks(p)
        op == arith_infix_op(p1)
    IN
    IF op.some
    THEN IF op.prec < min_prec THEN Ret(p1, left)
         ELSE
         LET p2 == bump_n(p1, op.len)
             op_end == p2.pos
             p3 == skip_blanks(p2)
             p4 == IF op.len = 1 THEN slice_range(p3, op_end - 1, op_end) ELSE p3
             opText == Text(p3, op_end - 1, op_end)
         IN
         IF p4.st # "ok" THEN Ret(p4, <<>>)
         ELSE IF op.len = 1 /\ opText = <<"?">>
         THEN LET t == Call("arith", p4, 0) IN
              IF Bad(t) THEN t ELSE
              LET q == skip_blanks(t.p) IN
              IF ~eat_ok(q, ":") THEN Fail(q, "expected ':' in ternary")
              ELSE LET e == Call("arith", skip_blanks(eat(q, ":")), 0) IN
                   IF Bad(e) THEN e
                   ELSE ArithLoop(e.p, [k |-> "Ternary", c |-> left,
                                        t |-> t.v, e |-> e.v], min_prec)
         ELSE IF op.len = 1 /\ opText = <<"=">>
         THEN IF left.k = "Var"
              THEN LET r == Call("arith", p4, op.prec) IN
                   IF Bad(r) THEN r
                   ELSE ArithLoop(r.p, [k |-> "Assign", name |-> left.name,
                                        e |-> r.v], min_prec)
              ELSE Fail(p4, "expected variable for assignment")
         ELSE LET r == Call("arith", p4, op.prec + 1) IN
              IF Bad(r) THEN r
              ELSE ArithLoop(r.p, Bin(op.kind, left, r.v), min_prec)
    ELSE LET b1 == peek(p1)
             b2 == peek_at(p1, 1)
         IN
         IF b2 = "=" /\ b1 \in {"+", "-", "*", "/", "%"} /\ left.k = "Var"
         THEN LET r == Call("arith", skip_blanks(bump_n(p1, 2)), 0) IN
              IF Bad(r) THEN r
              ELSE ArithLoop(r.p,
                       [k |-> "Assign", name |-> left.name,
                        e |-> Bin(CompoundAssignKind(b1), AVar(left.name), r.v)],
                       min_prec)
         ELSE Ret(p1, left)

arith(p, min_prec) ==
    LET a == Call("arith_atom", p, <<>>) IN
    IF Bad(a) THEN a ELSE ArithLoop(a.p, a.v, min_prec)

is_ascii_hexdigit(b) ==
    is_ascii_digit(b) \/ b \in {"a", "b", "c", "d", "e", "f",
                                "A", "B", "C", "D", "E", "F"}

RECURSIVE BumpWhile(_, _)
\* while set.contains(peek()) { bump() }
BumpWhile(p, set) == IF peek(p) \in set THEN BumpWhile(bump(p), set) ELSE p

HexDigits == {b \in Lower \cup Upper \cup Digit : is_ascii_hexdigit(b)}

\* The number arm of arith_atom; p is on the first digit.
ArithNumber(p) ==
    LET start == p.pos
        p1 == IF peek(p) = "0" THEN bump(p) ELSE p
        prefixed == peek(p) = "0" /\ peek(p1) \in {"x", "X", "b", "B"}
    IN
    IF prefixed
    THEN LET radix == IF peek(p1) \in {"x", "X"} THEN 16 ELSE 2
             q == slice(BumpWhile(bump(p1),
                                  IF radix = 16 THEN HexDigits ELSE {"0", "1"}),
                        start)
             s == Text(q, start, q.pos)
         IN  IF q.st # "ok" THEN Ret(q, <<>>)
             ELSE Ret(q, ANum(from_str_radix_or0(SubSeq(s, 3, Len(s)), radix)))
    ELSE LET q == slice(BumpWhile(p1, Digit), start)
             num_str == Text(q, start, q.pos)
         IN  IF q.st # "ok" THEN Ret(q, <<>>)
             ELSE Ret(q, ANum(IF num_str[1] = "0" /\ Len(num_str) > 1
                              THEN from_str_radix_or0(num_str, 8)
                              ELSE from_str_radix_or0(num_str, 10)))

PrefixKind(b) ==
    CASE b = "+" -> "Pos" [] b = "-" -> "Neg" [] b = "!" -> "LogNot"
      [] OTHER -> "BitNot"

arith_atom(p) ==
    LET p1 == skip_blanks(p)
        b == peek(p1)
    IN
    IF b = "("
    THEN LET r == Call("arith", bump(p1), 0) IN
         IF Bad(r) THEN r ELSE
         LET q == skip_blanks(r.p) IN
         IF ~eat_ok(q, ")") THEN Fail(q, "expected ')' in arithmetic")
         ELSE Ret(eat(q, ")"), r.v)
    ELSE IF b \in {"+", "-"} /\ peek_at(p1, 1) = b
    THEN LET n == read_name(skip_blanks(bump_n(p1, 2))) IN
         IF Bad(n) THEN n
         ELSE IF n.v = <<>>
         THEN Fail(n.p, IF b = "+" THEN "expected variable after '++'"
                        ELSE "expected variable after '--'")
         ELSE Ret(n.p, ANamed(IF b = "+" THEN "PreInc" ELSE "PreDec", n.v))
    ELSE IF b \in {"+", "-", "!", "~"}
    THEN LET r == Call("arith_atom", bump(p1), <<>>) IN
         IF Bad(r) THEN r ELSE Ret(r.p, Un(PrefixKind(b), r.v))
    ELSE IF b = "$"
    THEN LET p2 == bump(p1) IN
         IF peek(p2) = "(" /\ peek_at(p2, 1) = "("
         THEN LET r == Call("arith", bump_n(p2, 2), 0) IN
              IF Bad(r) THEN r ELSE
              LET q == skip_blanks(r.p)
                  q1 == eat(q, ")")
              IN  IF ~eat_ok(q, ")") THEN Fail(q, "expected '))' in nested arithmetic")
                  ELSE IF ~eat_ok(q1, ")")
                  THEN Fail(q1, "expected '))' in nested arithmetic")
                  ELSE Ret(eat(q1, ")"), r.v)
         ELSE IF peek(p2) = "("
         THEN Fail(p2, "unsupported: command substitution in arithmetic")
         ELSE LET n == read_name(p2) IN
              IF Bad(n) THEN n
              ELSE IF n.v # <<>> THEN check_postfix(n.p, n.v)
              ELSE IF is_ascii_digit(peek(n.p))
              THEN LET q == slice(BumpWhile(n.p, Digit), n.p.pos) IN
                   IF q.st # "ok" THEN Ret(q, <<>>)
                   ELSE Ret(q, AVar(Text(q, n.p.pos, q.pos)))
              ELSE Fail(n.p, "expected variable after '$' in arithmetic")
    ELSE IF is_ascii_digit(b) THEN ArithNumber(p1)
    ELSE LET n == read_name(p1) IN
         IF Bad(n) THEN n
         ELSE IF n.v = <<>> THEN Fail(n.p, "expected arithmetic expression")
         ELSE check_postfix(n.p, n.v)

\* The function of the parser that is named fn, on parser p with argument a
Call(fn, p, a) ==
    CASE fn = "parse" -> parse(p)
      [] fn = "cmd_list" -> cmd_list(p, a)
      [] fn = "cmd" -> cmd(p)
      [] fn = "case_body" -> case_body(p, a)
      [] fn = "case_arms" -> CaseArms(p, a.word, a.arms)
      [] fn = "and_or" -> and_or(p)
      [] fn = "pipeline" -> pipeline(p)
      [] fn = "executable" -> executable(p)
      [] fn = "simple_cmd" -> simple_cmd(p)
      [] fn = "try_assignment" -> try_assignment(p)
      [] fn = "try_redirect" -> try_redirect(p)
      [] fn = "collect_redirects" -> collect_redirects(p)
      [] fn = "word" -> word(p)
      [] fn = "word_part" -> word_part(p)
      [] fn = "dquoted" -> dquoted(p)
      [] fn = "atom" -> atom(p)
      [] fn = "dollar" -> dollar(p)
      [] fn = "backtick" -> backtick(p)
      [] fn = "cmd_subst" -> cmd_subst(p)
      [] fn = "arith_subst" -> arith_subst(p)
      [] fn = "parse_heredoc_body" -> parse_heredoc_body(p)
      [] fn = "arith" -> arith(p, a)
      [] fn = "arith_atom" -> arith_atom(p)

-----------------------------------------------------------------------------
(* Inputs.                                                                 *)

RECURSIVE Flatten(_)
\* The concatenation of a sequence of byte strings
Flatten(toks) == IF toks = <<>> THEN <<>> ELSE Head(toks) \o Flatten(Tail(toks))

\* Every concatenation of at most n tokens of the alphabet
TokenInputs(alphabet, n) ==
    {Flatten(toks) : toks \in UNION {[1..m -> alphabet] : m \in 0..n}}

\* A two-byte UTF-8 character (U+00E9): lead byte, continuation byte
EAcute == <<"<C3>", "<A9>">>

\* Quoting and substitution bytes
QuoteTokens ==
    {<<BQ>>, <<BS>>, <<DQ>>, <<SQ>>, <<"$">>, <<"a">>, <<" ">>, <<"<", "<">>,
     EAcute}

\* Names, digits, operators and brace ranges that the probes look at
ProbeTokens ==
    {<<"a">>, <<"2">>, <<" ", "2">>, <<"=">>, <<"+", "=">>, <<">">>, <<";">>,
     <<"{", "1", ".", ".", "3", "}">>, <<"{">>}

\* First lines that open one or two heredocs
HeredocHeads ==
    {<<"c", "<", "<", "A">>,
     <<"c", "<", "<", "A", "<", "<", "B">>,
     <<"c", "<", "<", "-", "A">>,
     <<"c", "<", "<", SQ, "A", SQ>>,
     <<"c", "<", "<", "A", SP, "$", "(", "d", ")">>,
     <<"c", "<", "<", "A", ";", "d">>,
     <<"c", "<", "<", "A", "|", "d">>}

\* The lines that may follow: delimiters and plain text
HeredocLines ==
    {<<"A", NL>>, <<"B", NL>>, <<"x", NL>>, <<TAB, "A", NL>>}

\* A first line and at most `lines` lines after it
HeredocInputs(lines) ==
    {head \o <<NL>> \o rest :
        head \in HeredocHeads, rest \in TokenInputs(HeredocLines, lines)}

\* The inputs of at most `tokens` tokens, or a heredoc of at most `lines` lines
ParseInputs(tokens, lines) ==
    TokenInputs(QuoteTokens, tokens) \cup TokenInputs(ProbeTokens, tokens)
        \cup HeredocInputs(lines)

-----------------------------------------------------------------------------
(* Parser::new(input).parse(): one action per turn of the top-level        *)
(* cmd_list loop, one for its return.                                      *)

NoResult == [k |-> "none"]
NoProbe == [f |-> "none"]
NoCtx == [in_subshell |-> FALSE]

InitParse ==
    /\ NoDaemon
    /\ parser \in {NewParser(input) : input \in ParseInputs(MaxTokens, MaxLines)}
    /\ cmds = <<>>
    /\ pc = "parse"
    /\ result = NoResult
    /\ out = ""
    /\ ctx = NoCtx
    /\ idx = 0
    /\ probe = NoProbe

\* What parse() hands back once cmd_list has ended with parser p
ParseResult(p, cs) ==
    CASE p.st = "ok" -> [k |-> "Ok", cmds |-> cs]
      [] p.st = "err" -> [k |-> "Err", pos |-> p.epos, msg |-> p.emsg]
      [] OTHER -> [k |-> p.st]

ParseCmd ==
    /\ pc = "parse"
    /\ \E s \in {CmdListStep(parser, {})} :
       /\ ~s.done
       /\ parser' = s.p
       /\ cmds' = cmds \o s.v
    /\ UNCHANGED <<pc, result, out, ctx, idx, probe>>
    /\ UNCHANGED daemon_vars

ParseReturn ==
    /\ pc = "parse"
    /\ \E s \in {CmdListStep(parser, {})} :
       /\ s.done
       /\ parser' = s.p
       /\ result' = ParseResult(s.p, cmds)
       /\ pc' = IF s.p.st = "hang" THEN "hang" ELSE "returned"
    /\ UNCHANGED <<cmds, out, ctx, idx, probe>>
    /\ UNCHANGED daemon_vars

NextParse == ParseCmd \/ ParseReturn

SpecParse == InitParse /\ [][NextParse]_vars

\* Every construct the inputs reach is one the model follows.
AllModelled == parser.st # "unmodelled"

-----------------------------------------------------------------------------
(* Properties of Parser::parse.                                            *)

\* C1: for every input, malformed and truncated input included,
\* Parser::parse returns Ok(commands) or Err(ParseError): no call it makes
\* panics.
ParseNeverPanics == parser.st # "panic"

\* C4: whenever slice, slice_range or remaining is called, the range asked
\* for satisfies start <= end <= input length.
SlicesInBounds ==
    \A t \in parser.slices : t[1] <= t[2] /\ t[2] <= t[3]

\* C6: whenever try_assignment, try_redirect or try_brace_range reports no
\* match, the cursor is where it was on entry to the probe.
ProbesRewind ==
    \A r \in parser.probes : r.exit = r.entry

\* Each of the three probes has read ahead, reported no match and rewound.
ProbesRewindWitness ==
    \A f \in {"try_assignment", "try_redirect", "try_brace_range"} :
        \E r \in parser.probes : r.f = f /\ r.far > r.entry /\ r.exit = r.entry

\* The one command `words...` with no prefix, redirect, pipe or chain
OneSimpleCmd(words) ==
    CmdList(AndOrList(PipeSingle(ExecSimple(
        SimpleCmd(<<>>, [i \in 1..Len(words) |-> SuffixWord(words[i])]))), <<>>))

\* The input is pre'body' with pre empty or a bare name and no quote in body
IsSquotedWord(src, pre) ==
    /\ Len(src) >= Len(pre) + 2
    /\ SubSeq(src, 1, Len(pre)) = pre
    /\ src[Len(pre) + 1] = SQ
    /\ src[Len(src)] = SQ
    /\ \A i \in (Len(pre) + 2)..(Len(src) - 1) : src[i] # SQ

SquotedBody(src, pre) == SubSeq(src, Len(pre) + 2, Len(src) - 1)

\* C9: the text between a pair of single quotes is stored as one SQuoted
\* literal, byte for byte the input between the quotes, and no parameter,
\* substitution, backtick, escape or nested-quote node is made from it.
SingleQuotedIsLiteral ==
    \A pre \in {<<>>, <<"a">>} :
        (pc = "returned" /\ IsSquotedWord(parser.src, pre)) =>
            result = [k |-> "Ok",
                      cmds |-> <<OneSimpleCmd(<<MkWord(
                          (IF pre = <<>> THEN <<>> ELSE <<Bare(Lit(pre))>>)
                          \o <<SQuoted(SquotedBody(parser.src, pre))>>)>>)>>]

\* '$a' has been parsed: a dollar and a name between single quotes.
SingleQuotedWitness ==
    /\ pc = "returned"
    /\ parser.src = <<SQ, "$", "a", SQ>>
    /\ result.k = "Ok"
    /\ result.cmds[1].list.first.cmds[1].cmd.suffix[1].word.parts
           = <<SQuoted(<<"$", "a">>)>>

\* C5: once a command with a heredoc redirect has been parsed, the outer
\* parse goes on just past the heredoc's delimiter line: no command is parsed
\* out of a heredoc's body or delimiter line, no saved resume position is
\* used twice and none is left unused when the parse returns.
HeredocResumedOnce ==
    /\ \A i \in 1..Len(parser.hd) : \A s \in parser.starts :
           ~(parser.hd[i].body_start <= s /\ s < parser.hd[i].after)
    /\ parser.takes <= Len(parser.hd)
    /\ (pc = "returned" /\ parser.st = "ok") => ~parser.heredoc_resume.some

-----------------------------------------------------------------------------
(* Arithmetic: $((x op1 y op2 z)) through the same entry point.            *)

\* The binary operators with the node each one builds and its level in the
\* precedence table, 1 (binds loosest) to 11 (binds tightest).
BinaryOps ==
    {[text |-> <<"|", "|">>, kind |-> "LogOr", level |-> 1],
     [text |-> <<"&", "&">>, kind |-> "LogAnd", level |-> 2],
     [text |-> <<"|">>, kind |-> "BitOr", level |-> 3],
     [text |-> <<"^">>, kind |-> "BitXor", level |-> 4],
     [text |-> <<"&">>, kind |-> "BitAnd", level |-> 5],
     [text |-> <<"=", "=">>, kind |-> "Eq", level |-> 6],
     [text |-> <<"!", "=">>, kind |-> "Ne", level |-> 6],
     [text |-> <<"<">>, kind |-> "Lt", level |-> 7],
     [text |-> <<"<", "=">>, kind |-> "Le", level |-> 7],
     [text |-> <<">">>, kind |-> "Gt", level |-> 7],
     [text |-> <<">", "=">>, kind |-> "Ge", level |-> 7],
     [text |-> <<"<", "<">>, kind |-> "Shl", level |-> 8],
     [text |-> <<">", ">">>, kind |-> "Shr", level |-> 8],
     [text |-> <<"+">>, kind |-> "Add", level |-> 9],
     [text |-> <<"-">>, kind |-> "Sub", level |-> 9],
     [text |-> <<"*">>, kind |-> "Mul", level |-> 10],
     [text |-> <<"/">>, kind |-> "Div", level |-> 10],
     [text |-> <<"%">>, kind |-> "Rem", level |-> 10],
     [text |-> <<"*", "*">>, kind |-> "Pow", level |-> 11]}

Operands == {<<AVar(<<"a">>), AVar(<<"b">>), AVar(<<"c">>)>>,
             <<ANum(2), ANum(3), ANum(4)>>}

OperandText(e) == IF e.k = "Var" THEN e.name ELSE IF e.n = 2 THEN <<"2">>
                  ELSE IF e.n = 3 THEN <<"3">> ELSE <<"4">>

\* $((x op1 y op2 z)), with or without blanks around the operators
ArithText(xs, op1, op2, sp) ==
    <<"$", "(", "(">> \o OperandText(xs[1]) \o sp \o op1.text \o sp
        \o OperandText(xs[2]) \o sp \o op2.text \o sp \o OperandText(xs[3])
        \o <<")", ")">>

InitArith ==
    /\ NoDaemon
    /\ \E xs \in Operands, op1 \in BinaryOps, op2 \in BinaryOps,
          sp \in {<<>>, <<SP>>} :
          /\ parser = NewParser(ArithText(xs, op1, op2, sp))
          /\ probe = [f |-> "arith", xs |-> xs, op1 |-> op1, op2 |-> op2]
    /\ cmds = <<>>
    /\ pc = "parse"
    /\ result = NoResult
    /\ out = ""
    /\ ctx = NoCtx
    /\ idx = 0

SpecArith == InitArith /\ [][NextParse]_vars

\* The expression of the $((...)) that is the only word of the only command
ParsedArith == result.cmds[1].list.first.cmds[1].cmd.suffix[1].word.parts[1]
                     .atom.subst.expr[1]

\* C7: when the second operator binds tighter than the first, x op1 y op2 z
\* parses as x op1 (y op2 z); when the first binds tighter than the second,
\* it parses as (x op1 y) op2 z.  So 2 + 3 * 4 is 2 + (3 * 4).
ArithPrecedence ==
    pc = "returned" =>
        LET x == probe.xs[1]
            y == probe.xs[2]
            z == probe.xs[3]
            k1 == probe.op1.kind
            k2 == probe.op2.kind
        IN  /\ probe.op2.level > probe.op1.level =>
                   /\ result.k = "Ok"
                   /\ ParsedArith = Bin(k1, x, Bin(k2, y, z))
            /\ probe.op1.level > probe.op2.level =>
                   /\ result.k = "Ok"
                   /\ ParsedArith = Bin(k2, Bin(k1, x, y), z)

\* $((2+3*4)) has been parsed as 2 + (3 * 4).
ArithPrecedenceWitness ==
    /\ pc = "returned"
    /\ parser.src = <<"$", "(", "(", "2", "+", "3", "*", "4", ")", ")">>
    /\ result.k = "Ok"
    /\ ParsedArith = Bin("Add", ANum(2), Bin("Mul", ANum(3), ANum(4)))

-----------------------------------------------------------------------------
(* The lexer on its own: a cursor that is stepped over an input and asked  *)
(* whether a keyword stands at it.                                         *)

KwFi == <<"f", "i">>

\* The bytes the lexer may find after a word: the word boundaries and some
\* bytes that are none
BoundaryBytes == {SP, TAB, NL, ";", "&", "|", "(", ")", "<", ">"}
FollowBytes == BoundaryBytes \cup {"l", "_", "e", "#", "=", "}", SQ}

\* [pre] word [byte [e]]: a keyword or a part of one, then any byte
LexInputs ==
    {pre \o w \o follow \o post :
        pre \in {<<>>, <<SP>>, <<"x">>},
        w \in {KwFi, KwDone, <<"f">>, <<"d", "o", "n">>},
        follow \in {<<>>} \cup {<<b>> : b \in FollowBytes},
        post \in {<<>>, <<"e">>}}

InitLex ==
    /\ NoDaemon
    /\ parser \in {NewParser(input) : input \in LexInputs}
    /\ probe = NoProbe
    /\ pc = "lex"
    /\ cmds = <<>>
    /\ result = NoResult
    /\ out = ""
    /\ ctx = NoCtx
    /\ idx = 0

LexBump ==
    /\ pc = "lex"
    /\ ~is_eof(parser)
    /\ parser' = bump(parser)
    /\ probe' = NoProbe
    /\ UNCHANGED <<cmds, pc, result, out, ctx, idx>>
    /\ UNCHANGED daemon_vars

LexAtKeyword ==
    /\ pc = "lex"
    /\ \E kw \in {KwFi, KwDone} :
          probe' = [f |-> "at_keyword", kw |-> kw, pos |-> parser.pos,
                    ans |-> at_keyword(parser, kw)]
    /\ UNCHANGED <<parser, cmds, pc, result, out, ctx, idx>>
    /\ UNCHANGED daemon_vars

NextLex == LexBump \/ LexAtKeyword

SpecLex == InitLex /\ [][NextLex]_vars

\* C8: a multi-byte keyword is recognised at the cursor exactly when the
\* bytes there are the keyword's and what follows is a word boundary (blank,
\* newline, ; & | ( ) < >) or the end of the input.
KeywordNeedsBoundary ==
    probe.f = "at_keyword" =>
        LET src == parser.src
            end == probe.pos + Len(probe.kw)
        IN  probe.ans <=>
                /\ end <= Len(src)
                /\ SubSeq(src, probe.pos + 1, end) = probe.kw
                /\ (end = Len(src) \/ src[end + 1] \in BoundaryBytes)

\* `fi` has been asked for at the start of `file` and was not recognised.
KeywordNeedsBoundaryWitness ==
    /\ probe.f = "at_keyword"
    /\ parser.src = <<"f", "i", "l", "e">>
    /\ probe.pos = 0
    /\ probe.kw = KwFi
    /\ ~probe.ans

-----------------------------------------------------------------------------
(* Translator (src/src/translate.rs).  An emitter takes the state e of the *)
(* emission (the output buffer `out`, Ctx's in_subshell, and whether a     *)
(* TranslateError has been returned or Rust has panicked) and returns it.  *)

NewEmit == [out |-> "", in_subshell |-> FALSE, st |-> "ok", msg |-> ""]

RECURSIVE Str(_)
\* The text of a byte string
Str(s) == IF s = <<>> THEN "" ELSE s[1] \o Str(Tail(s))

push_str(e, text) == [e EXCEPT !.out = @ \o text]

Unsupported(e, msg) == [e EXCEPT !.st = "err", !.msg = msg]

Panicked(e, msg) == [e EXCEPT !.st = "panic", !.msg = msg]

NotEmitted(e, what) == [e EXCEPT !.st = "unmodelled", !.msg = what]

\* `emit(..)?; out.push_str(text)`: the text is written if the emitter succeeded
Then(e, text) == IF e.st # "ok" THEN e ELSE push_str(e, text)

\* From<ParseError> for TranslateError, for a parse that an emitter started
ParseErrorIn(e, p) ==
    [e EXCEPT !.st = IF p.st = "err" THEN "parse" ELSE p.st, !.msg = p.emsg]

\* The emitters that take part in recursion call one another through Emit:
\* Emit("cmd", e, c) is emit_cmd(e, c), Emit("body", e, cmds) is
\* emit_body(e, cmds), Emit("word", e, w) is emit_word(e, w),
\* Emit("word_unquoted", e, w) is emit_word_unquoted(e, w), and
\* Emit("translate", e, input) is translate_bash_to_fish(input) and leaves
\* the caller's e out of account.
RECURSIVE Emit(_, _, _)

flat_part(part) ==
    IF part.k = "Bare" /\ part.atom.k = "Lit" THEN part.atom.s
    ELSE IF part.k = "SQuoted" THEN part.s
    ELSE <<>>

RECURSIVE BraceGroupEnd(_, _)
\* has_nested_brace_expansion's inner loop: the index of the next '}' from i
BraceGroupEnd(bytes, i) ==
    IF i < Len(bytes) /\ bytes[i + 1] # "}" THEN BraceGroupEnd(bytes, i + 1) ELSE i

RECURSIVE NestedBraceScan(_, _, _)
NestedBraceScan(bytes, i, brace_count) ==
    IF i >= Len(bytes) THEN FALSE
    ELSE IF bytes[i + 1] = "{"
    THEN LET j == BraceGroupEnd(bytes, i + 1)
             has_comma == \E n \in (i + 1)..(j - 1) : bytes[n + 1] = ","
         IN  IF j < Len(bytes) /\ has_comma
             THEN brace_count + 1 >= 2 \/ NestedBraceScan(bytes, j + 1, brace_count + 1)
             ELSE NestedBraceScan(bytes, j + 1, 0)
    ELSE NestedBraceScan(bytes, i + 1, 0)

has_nested_brace_expansion(bytes) == NestedBraceScan(bytes, 0, 0)

word_has_nested_braces(w) ==
    has_nested_brace_expansion(
        Flatten([i \in 1..Len(w.parts) |-> flat_part(w.parts[i])]))

word_has_brace_range_concat(w) ==
    /\ w.k = "Concat"
    /\ \E i \in 1..Len(w.parts) :
           w.parts[i].k = "Bare" /\ w.parts[i].atom.k = "BraceRange"
    /\ \E i \in 1..Len(w.parts) :
           LET part == w.parts[i] IN
           \/ part.k = "Bare" /\ part.atom.k \in {"Param", "Subst", "ProcSubIn"}
           \/ part.k = "DQuoted"
                  /\ \E j \in 1..Len(part.atoms) : part.atoms[j].k # "Lit"

\* itoa: the decimal text of an integer
itoa(n) == ToString(n)

BinopKinds ==
    {"Add", "Sub", "Mul", "Div", "Rem", "Pow", "Lt", "Le", "Gt", "Ge", "Eq", "Ne",
     "BitAnd", "BitOr", "BitXor", "LogAnd", "LogOr", "Shl", "Shr"}

is_arith_binop(a) == a.k \in BinopKinds

\* The operator texts that emit_arith hands to emit_arith_binop
BinopText(k) ==
    CASE k = "Add" -> " + " [] k = "Sub" -> " - " [] k = "Mul" -> " * "
      [] k = "Rem" -> " % " [] k = "Pow" -> " ^ " [] k = "Lt" -> " < "
      [] k = "Le" -> " <= " [] k = "Gt" -> " > " [] k = "Ge" -> " >= "
      [] k = "Eq" -> " == " [] k = "Ne" -> " != " [] k = "LogAnd" -> " && "
      [] k = "LogOr" -> " || "

RECURSIVE emit_arith(_)
\* emit_arith_binop: the text it appends to `out`
emit_arith_binop(l, op, r) ==
    (IF is_arith_binop(l) THEN "(" \o emit_arith(l) \o ")" ELSE emit_arith(l))
        \o op
        \o (IF is_arith_binop(r) THEN "(" \o emit_arith(r) \o ")" ELSE emit_arith(r))

\* emit_arith: the text it appends to `out` (it cannot fail)
emit_arith(a) ==
    CASE a.k = "Var" ->
             IF is_ascii_digit(a.name[1]) THEN "$argv[" \o Str(a.name) \o "]"
             ELSE "$" \o Str(a.name)
      [] a.k = "Lit" -> itoa(a.n)
      [] a.k = "Div" -> "floor(" \o emit_arith(a.l) \o " / " \o emit_arith(a.r) \o ")"
      [] a.k = "BitAnd" ->
             "bitand(" \o emit_arith(a.l) \o ", " \o emit_arith(a.r) \o ")"
      [] a.k = "BitOr" ->
             "bitor(" \o emit_arith(a.l) \o ", " \o emit_arith(a.r) \o ")"
      [] a.k = "BitXor" ->
             "bitxor(" \o emit_arith(a.l) \o ", " \o emit_arith(a.r) \o ")"
      [] a.k = "Shl" -> "(" \o emit_arith(a.l) \o " * 2 ^ " \o emit_arith(a.r) \o ")"
      [] a.k = "Shr" ->
             "floor(" \o emit_arith(a.l) \o " / 2 ^ " \o emit_arith(a.r) \o ")"
      [] a.k = "Pos" -> "+" \o emit_arith(a.e)
      [] a.k = "Neg" -> "-" \o emit_arith(a.e)
      [] a.k = "LogNot" -> "!" \o emit_arith(a.e)
      [] a.k = "BitNot" -> "bitxor(" \o emit_arith(a.e) \o ", -1)"
      [] a.k \in {"PostInc", "PreInc"} -> "($" \o Str(a.name) \o " + 1)"
      [] a.k \in {"PostDec", "PreDec"} -> "($" \o Str(a.name) \o " - 1)"
      [] a.k = "Ternary" ->
             "(" \o emit_arith(a.c) \o " ? " \o emit_arith(a.t) \o " : "
                 \o emit_arith(a.e) \o ")"
      [] a.k = "Assign" -> Str(a.name) \o " = " \o emit_arith(a.e)
      [] OTHER -> emit_arith_binop(a.l, BinopText(a.k), a.r)

RECURSIVE arith_has_unsupported(_)
arith_has_unsupported(a) ==
    CASE a.k \in {"PostInc", "PreInc", "PostDec", "PreDec", "Assign"} -> TRUE
      [] a.k \in BinopKinds -> arith_has_unsupported(a.l) \/ arith_has_unsupported(a.r)
      [] a.k \in {"Pos", "Neg", "LogNot", "BitNot"} -> arith_has_unsupported(a.e)
      [] a.k = "Ternary" ->
             \/ arith_has_unsupported(a.c)
             \/ arith_has_unsupported(a.t)
             \/ arith_has_unsupported(a.e)
      [] OTHER -> FALSE

arith_needs_test(a) ==
    a.k \in {"Lt", "Le", "Gt", "Ge", "Eq", "Ne", "LogAnd", "LogOr", "LogNot",
             "Ternary"}

TestOp(k) ==
    CASE k = "Lt" -> "-lt" [] k = "Le" -> "-le" [] k = "Gt" -> "-gt"
      [] k = "Ge" -> "-ge" [] k = "Eq" -> "-eq" [] k = "Ne" -> "-ne"

RECURSIVE emit_arith_value(_)
RECURSIVE emit_arith_condition(_)

\* emit_test_cmp: the text it appends (none of these four returns an Err)
emit_test_cmp(l, op, r) ==
    "test " \o emit_arith_value(l) \o " " \o op \o " " \o emit_arith_value(r)

emit_arith_condition(a) ==
    CASE a.k \in {"Lt", "Le", "Gt", "Ge", "Eq", "Ne"} ->
             emit_test_cmp(a.l, TestOp(a.k), a.r)
      [] a.k = "LogAnd" ->
             emit_arith_condition(a.l) \o "; and " \o emit_arith_condition(a.r)
      [] a.k = "LogOr" ->
             emit_arith_condition(a.l) \o "; or " \o emit_arith_condition(a.r)
      [] a.k = "LogNot" -> "not " \o emit_arith_condition(a.e)
      [] OTHER -> "test " \o emit_arith_value(a) \o " -ne 0"

emit_arith_as_command(a) ==
    IF a.k = "Ternary"
    THEN "(if " \o emit_arith_condition(a.c) \o "; echo " \o emit_arith_value(a.t)
             \o "; else; echo " \o emit_arith_value(a.e) \o "; end)"
    ELSE "(" \o emit_arith_condition(a) \o "; and echo 1; or echo 0)"

emit_arith_value(a) ==
    CASE a.k = "Var" -> "$" \o Str(a.name)
      [] a.k = "Lit" -> itoa(a.n)
      [] arith_needs_test(a) -> emit_arith_as_command(a)
      [] OTHER -> "(math " \o DQ \o emit_arith(a) \o DQ \o ")"

UntranslatableVars ==
    {<<"L", "I", "N", "E", "N", "O">>, <<"F", "U", "N", "C", "N", "A", "M", "E">>,
     <<"S", "E", "C", "O", "N", "D", "S">>}

CompletionVars ==
    {<<"C", "O", "M", "P", "_", "W", "O", "R", "D", "S">>,
     <<"C", "O", "M", "P", "_", "C", "W", "O", "R", "D">>,
     <<"C", "O", "M", "P", "_", "L", "I", "N", "E">>,
     <<"C", "O", "M", "P", "_", "P", "O", "I", "N", "T">>}

check_untranslatable_var(e, param) ==
    IF param.k = "Var" /\ param.name \in UntranslatableVars
    THEN Unsupported(e, "$" \o Str(param.name))
    ELSE IF param.k = "Var" /\ param.name \in CompletionVars
    THEN Unsupported(e, "bash completion variable")
    ELSE e

\* emit_param: the text it appends to `out`
emit_param(param) ==
    CASE param.k = "Var" ->
             CASE param.name = <<"R", "A", "N", "D", "O", "M">> -> "(random)"
               [] param.name = <<"H", "O", "S", "T", "N", "A", "M", "E">> ->
                      "$hostname"
               [] param.name = <<"B", "A", "S", "H", "_", "S", "O", "U", "R", "C", "E">> ->
                      "(status filename)"
               [] param.name = <<"P", "I", "P", "E", "S", "T", "A", "T", "U", "S">> ->
                      "$pipestatus"
               [] OTHER -> "$" \o Str(param.name)
      [] param.k = "Positional" ->
             IF param.n = 0 THEN "(status filename)"
             ELSE "$argv[" \o itoa(param.n) \o "]"
      [] param.k \in {"At", "Star"} -> "$argv"
      [] param.k = "Pound" -> "(count $argv)"
      [] param.k = "Status" -> "$status"
      [] param.k = "Pid" -> "$fish_pid"
      [] param.k = "Bang" -> "$last_pid"
      [] param.k = "Dash" -> DQ \o DQ

RECURSIVE EmitJoined(_, _, _)
\* `for (i, cmd) in cmds: if i > 0 { out.push_str("; ") } emit_cmd(..)?`
EmitJoined(e, body, i) ==
    IF e.st # "ok" \/ i > Len(body) THEN e
    ELSE EmitJoined(Emit("cmd", IF i > 1 THEN push_str(e, "; ") ELSE e, body[i]),
                    body, i + 1)

\* emit_subst; the `${...}` forms are not followed
emit_subst(e, subst) ==
    CASE subst.k = "Cmd" -> Then(EmitJoined(push_str(e, "("), subst.cmds, 1), ")")
      [] subst.k = "Arith" ->
             IF subst.expr = <<>> THEN push_str(e, "(math 0)")
             ELSE IF arith_has_unsupported(subst.expr[1])
             THEN Unsupported(e, "unsupported arithmetic (bitwise, increment, or assignment)")
             ELSE IF arith_needs_test(subst.expr[1])
             THEN push_str(e, emit_arith_as_command(subst.expr[1]))
             ELSE push_str(e, "(math " \o DQ \o emit_arith(subst.expr[1]) \o DQ \o ")")
      [] subst.k = "Len" ->
             push_str(e, "(string length -- " \o DQ \o emit_param(subst.param)
                             \o DQ \o ")")
      [] OTHER -> NotEmitted(e, subst.k)

emit_atom(e, a) ==
    CASE a.k = "Lit" -> push_str(e, Str(a.s))
      [] a.k = "Escaped" -> push_str(e, BS \o Str(a.s))
      [] a.k = "Param" -> Then(check_untranslatable_var(e, a.param), emit_param(a.param))
      [] a.k = "Subst" -> emit_subst(e, a.subst)
      [] a.k = "ProcSubIn" ->
             Then(EmitJoined(push_str(e, "("), a.cmds, 1), " | psub)")
      [] a.k = "Star" -> push_str(e, "*")
      [] a.k = "Question" -> push_str(e, "?")
      [] a.k = "SquareOpen" -> push_str(e, "[")
      [] a.k = "SquareClose" -> push_str(e, "]")
      [] a.k = "Tilde" -> push_str(e, "~")
      [] OTHER -> NotEmitted(e, a.k)

RECURSIVE EmitDquoted(_, _, _, _)
EmitDquoted(e, atoms, i, in_quotes) ==
    IF e.st # "ok" THEN e
    ELSE IF i > Len(atoms) THEN IF in_quotes THEN push_str(e, DQ) ELSE e
    ELSE LET is_subst == atoms[i].k = "Subst"
             e1 == IF is_subst = in_quotes THEN push_str(e, DQ) ELSE e
         IN  EmitDquoted(emit_atom(e1, atoms[i]), atoms, i + 1, ~is_subst)

emit_word_part(e, part) ==
    CASE part.k = "Bare" -> emit_atom(e, part.atom)
      [] part.k = "DQuoted" -> EmitDquoted(push_str(e, DQ), part.atoms, 1, TRUE)
      [] part.k = "SQuoted" -> push_str(e, SQ \o Str(part.s) \o SQ)

RECURSIVE EmitParts(_, _, _)
EmitParts(e, parts, i) ==
    IF e.st # "ok" \/ i > Len(parts) THEN e
    ELSE EmitParts(emit_word_part(e, parts[i]), parts, i + 1)

emit_word(e, w) ==
    IF word_has_nested_braces(w)
    THEN Unsupported(e, "nested brace expansion (fish expands in different order)")
    ELSE IF word_has_brace_range_concat(w)
    THEN Unsupported(e, "brace range with concatenated expansion")
    ELSE EmitParts(e, w.parts, 1)

RECURSIVE EmitAtoms(_, _, _)
EmitAtoms(e, atoms, i) ==
    IF e.st # "ok" \/ i > Len(atoms) THEN e
    ELSE EmitAtoms(emit_atom(e, atoms[i]), atoms, i + 1)

emit_word_unquoted(e, w) ==
    IF w.k = "Simple" /\ w.parts[1].k = "DQuoted"
    THEN EmitAtoms(e, w.parts[1].atoms, 1)
    ELSE IF w.k = "Simple" /\ w.parts[1].k = "SQuoted"
    THEN push_str(e, Str(w.parts[1].s))
    ELSE Emit("word", e, w)

\* atom_to_string: <<text>> when the atom is plain text, <<>> when it is not
atom_to_string(a) ==
    CASE a.k \in {"Lit", "Escaped"} -> <<a.s>>
      [] a.k = "SquareOpen" -> <<<<"[">>>>
      [] a.k = "SquareClose" -> <<<<"]">>>>
      [] a.k = "Tilde" -> <<<<"~">>>>
      [] a.k = "Star" -> <<<<"*">>>>
      [] a.k = "Question" -> <<<<"?">>>>
      [] OTHER -> <<>>

\* The concatenation of optional texts, or <<>> when one of them is missing
AllText(opts) ==
    IF \E i \in 1..Len(opts) : opts[i] = <<>> THEN <<>>
    ELSE <<Flatten([i \in 1..Len(opts) |-> opts[i][1]])>>

part_to_string(part) ==
    CASE part.k = "Bare" -> atom_to_string(part.atom)
      [] part.k = "SQuoted" -> <<part.s>>
      [] part.k = "DQuoted" ->
             AllText([i \in 1..Len(part.atoms) |-> atom_to_string(part.atoms[i])])

word_to_simple_string(w) ==
    AllText([i \in 1..Len(w.parts) |-> part_to_string(w.parts[i])])

\* word_as_str: Some(text) is <<text>>, None is <<>>
word_as_str(w) ==
    IF w.k = "Simple" /\ w.parts[1].k = "Bare" /\ w.parts[1].atom.k = "Lit"
    THEN <<w.parts[1].atom.s>>
    ELSE IF w.k = "Simple" /\ w.parts[1].k = "SQuoted" THEN <<w.parts[1].s>>
    ELSE word_to_simple_string(w)

RECURSIVE EmitRedirects(_, _, _)
\* emit_redirects; the redirect emitters themselves are not followed
EmitRedirects(e, redirects, i) ==
    IF e.st # "ok" \/ i > Len(redirects) THEN e
    ELSE EmitRedirects(NotEmitted(push_str(e, " "), "emit_redir"), redirects, i + 1)

emit_redirects(e, redirects) == EmitRedirects(e, redirects, 1)

RECURSIVE ReadFlags(_, _, _, _)
\* emit_read's "combined flags" loop over s[1..]
ReadFlags(e, s, i, wrote_flags) ==
    IF i > Len(s) THEN e
    ELSE IF s[i] = "r" THEN ReadFlags(e, s, i + 1, wrote_flags)
    ELSE IF s[i] = "a" THEN ReadFlags(push_str(e, " --list"), s, i + 1, wrote_flags)
    ELSE IF s[i] = "p" THEN ReadFlags(e, s, i + 1, wrote_flags)
    ELSE ReadFlags(push_str(IF wrote_flags THEN e ELSE push_str(e, " -"), s[i]),
                   s, i + 1, TRUE)

RECURSIVE ReadLoop(_, _, _, _)
ReadLoop(e, cmd_words, i, skip_next) ==
    IF e.st # "ok" \/ i > Len(cmd_words) THEN e
    ELSE
    LET w == cmd_words[i]
        opt == word_as_str(w)
        s == opt[1]
        Plain == ReadLoop(Emit("word", push_str(e, " "), w), cmd_words, i + 1, FALSE)
    IN
    IF skip_next
    THEN ReadLoop(Emit("word", push_str(e, " -P "), w), cmd_words, i + 1, FALSE)
    ELSE IF opt = <<>> THEN Plain
    ELSE IF s \in {<<"-", "r">>, <<"-", "r", "a">>, <<"-", "a", "r">>}
    THEN ReadLoop(IF \E n \in 1..Len(s) : s[n] = "a"
                  THEN push_str(e, " --list") ELSE e,
                  cmd_words, i + 1, FALSE)
    ELSE IF s = <<"-", "a">>
    THEN ReadLoop(push_str(e, " --list"), cmd_words, i + 1, FALSE)
    ELSE IF s = <<"-", "p">> THEN ReadLoop(e, cmd_words, i + 1, TRUE)
    ELSE IF Len(s) = 0 THEN Panicked(e, "index out of bounds: s.as_bytes()[0]")
    ELSE IF s[1] = "-" /\ Len(s) > 1 /\ s[2] # "-"
    THEN ReadLoop(ReadFlags(e, s, 2, FALSE), cmd_words, i + 1,
                  \E n \in 2..Len(s) : s[n] = "p")
    ELSE Plain

emit_read(e, cmd_words, redirects) ==
    LET e1 == ReadLoop(push_str(e, "read"), cmd_words, 2, FALSE) IN
    IF e1.st # "ok" THEN e1 ELSE emit_redirects(e1, redirects)

\* sig.strip_prefix("SIG").unwrap_or(&sig)
StripSig(sig) ==
    IF Len(sig) >= 3 /\ SubSeq(sig, 1, 3) = <<"S", "I", "G">>
    THEN SubSeq(sig, 4, Len(sig))
    ELSE sig

RECURSIVE TrapErase(_, _, _)
\* emit_trap, `trap - SIG ...`
TrapErase(e, args, i) ==
    IF i > Len(args) THEN e
    ELSE LET sig == word_as_str(args[i]) IN
         IF sig = <<>> THEN Unsupported(e, "trap with dynamic signal")
         ELSE TrapErase(push_str(e, "functions -e __reef_trap_"
                                        \o Str(StripSig(sig[1]))),
                        args, i + 1)

RECURSIVE TrapLoop(_, _, _, _)
\* emit_trap's loop over args[1..]
TrapLoop(e, args, i, fish_body) ==
    IF i > Len(args) THEN e
    ELSE
    LET e1 == IF i > 2 THEN push_str(e, NL) ELSE e
        sig == word_as_str(args[i])
        name == StripSig(sig[1])
        is_exit == name \in {<<"E", "X", "I", "T">>, <<"0">>}
    IN
    IF sig = <<>> THEN Unsupported(e1, "trap with dynamic signal")
    ELSE IF name = <<"E", "R", "R">>
    THEN Unsupported(e1, "trap ERR (no fish equivalent)")
    ELSE IF is_exit /\ e1.in_subshell
    THEN Unsupported(e1, "trap EXIT in subshell (no fish equivalent)")
    ELSE TrapLoop(
             push_str(e1, "function __reef_trap_" \o Str(name)
                 \o (IF is_exit THEN " --on-event fish_exit"
                     ELSE " --on-signal " \o Str(name))
                 \o (IF fish_body = "" THEN "; end"
                     ELSE NL \o fish_body \o NL \o "end")),
             args, i + 1, fish_body)

\* emit_trap once the handler has been translated (t is the translation)
TrapHandled(e, args, t) ==
    IF t.st # "ok" THEN [e EXCEPT !.st = t.st, !.msg = t.msg]
    ELSE TrapLoop(e, args, 2, t.out)

emit_trap(e, args) ==
    IF args = <<>> THEN Unsupported(e, "bare trap")
    ELSE
    LET handler_str == word_as_str(args[1]) IN
    IF handler_str = <<<<"-">>>> THEN TrapErase(e, args, 2)
    ELSE IF Len(args) < 2 THEN Unsupported(e, "trap with missing signal")
    ELSE IF handler_str = <<>>
    THEN LET b == Emit("word_unquoted", [e EXCEPT !.out = ""], args[1]) IN
         IF b.st # "ok" THEN [b EXCEPT !.out = e.out]
         ELSE NotEmitted(e, "trap handler with expansions")
    ELSE IF handler_str[1] = <<>> THEN TrapLoop(e, args, 2, "")
    ELSE TrapHandled(e, args, Emit("translate", e, handler_str[1]))

\* str::find for a one-byte pattern: Some(offset) is <<offset>>, None is <<>>
find(text, ch) ==
    LET at == {i \in 1..Len(text) : SubSeq(text, i, i) = ch} IN
    IF at = {} THEN <<>> ELSE <<(CHOOSE i \in at : \A j \in at : i <= j) - 1>>

starts_with(text, ch) == Len(text) >= Len(ch) /\ SubSeq(text, 1, Len(ch)) = ch

ends_with(text, ch) ==
    Len(text) >= Len(ch) /\ SubSeq(text, Len(text) - Len(ch) + 1, Len(text)) = ch

RECURSIVE replace(_, _, _)
\* str::replace for a one-byte pattern
replace(text, from, to) ==
    IF Len(text) = 0 THEN ""
    ELSE (IF SubSeq(text, 1, 1) = from THEN to ELSE SubSeq(text, 1, 1))
             \o replace(SubSeq(text, 2, Len(text)), from, to)

\* split_word_at_equals once the word has been emitted into `full`:
\* Some((var_name, value)) is <<[var_name, value]>>, None is <<>>
SplitAtEquals(full) ==
    IF find(full, "=") = <<>> THEN <<>>
    ELSE LET eq_pos == find(full, "=")[1]
             value_part == SubSeq(full, eq_pos + 2, Len(full))
         IN  <<[var_name |-> SubSeq(full, 1, eq_pos),
                value |-> IF Len(value_part) >= 2
                                 /\ \/ starts_with(value_part, DQ) /\ ends_with(value_part, DQ)
                                    \/ starts_with(value_part, SQ) /\ ends_with(value_part, SQ)
                          THEN SubSeq(value_part, 2, Len(value_part) - 1)
                          ELSE value_part]>>

\* split_word_at_equals; `full` is the outcome of emit_word on the word
split_word_at_equals(full) == IF full.st # "ok" THEN <<>> ELSE SplitAtEquals(full.out)

\* emit_export, the text written for the value of NAME=value
ExportValue(var_name, value_parts) ==
    IF ends_with(var_name, "PATH") /\ find(value_parts, ":") # <<>>
    THEN replace(value_parts, ":", " ")
    ELSE value_parts

\* emit_export, the body of the loop for one argument that is not an option;
\* `full` is the outcome of emit_word on the argument in a buffer of its own
ExportArg(e, arg, full) ==
    IF full.st \in {"panic", "unmodelled"} THEN [e EXCEPT !.st = full.st, !.msg = full.msg]
    ELSE IF split_word_at_equals(full) # <<>>
    THEN LET var_name == split_word_at_equals(full)[1].var_name
             value_parts == split_word_at_equals(full)[1].value
         IN  push_str(e, "set -gx " \o var_name
                 \o (IF value_parts = "" THEN ""
                     ELSE " " \o ExportValue(var_name, value_parts)))
    ELSE IF word_as_str(arg) # <<>>
    THEN push_str(e, "set -gx " \o Str(word_as_str(arg)[1]) \o " $"
                         \o Str(word_as_str(arg)[1]))
    ELSE Emit("word", push_str(e, "set -gx "), arg)

RECURSIVE ExportLoop(_, _, _, _)
\* emit_export's loop over the arguments
ExportLoop(e, args, i, first) ==
    IF e.st # "ok" \/ i > Len(args) THEN e
    ELSE IF word_as_str(args[i]) # <<>> /\ word_as_str(args[i])[1] # <<>>
                /\ word_as_str(args[i])[1][1] = "-"
    THEN ExportLoop(e, args, i + 1, first)
    ELSE ExportLoop(ExportArg(IF first THEN e ELSE push_str(e, NL), args[i],
                              Emit("word", [e EXCEPT !.out = ""], args[i])),
                    args, i + 1, FALSE)

emit_export(e, args) == ExportLoop(e, args, 1, TRUE)

\* The builtins whose emitters are not followed
OtherBuiltins ==
    {<<"u", "n", "s", "e", "t">>,
     <<"l", "o", "c", "a", "l">>,
     <<"d", "e", "c", "l", "a", "r", "e">>,
     <<"t", "y", "p", "e", "s", "e", "t">>,
     <<"r", "e", "a", "d", "o", "n", "l", "y">>,
     <<"[", "[">>,
     <<"l", "e", "t">>,
     <<"s", "h", "i", "f", "t">>,
     <<"a", "l", "i", "a", "s">>,
     <<"s", "e", "t">>,
     <<"p", "r", "i", "n", "t", "f">>}

Handled(e) == [handled |-> TRUE, e |-> e]

\* extract_eval_cmds: Some(cmds) is <<cmds>>, None is <<>>
extract_eval_cmds(args) ==
    IF Len(args) # 1 \/ args[1].k # "Simple" THEN <<>>
    ELSE LET part == args[1].parts[1] IN
         IF part.k = "DQuoted" /\ Len(part.atoms) = 1 /\ part.atoms[1].k = "Subst"
                /\ part.atoms[1].subst.k = "Cmd"
         THEN <<part.atoms[1].subst.cmds>>
         ELSE IF part.k = "Bare" /\ part.atom.k = "Subst" /\ part.atom.subst.k = "Cmd"
         THEN <<part.atom.subst.cmds>>
         ELSE <<>>

emit_eval(e, args) ==
    IF extract_eval_cmds(args) = <<>> THEN Unsupported(e, "eval")
    ELSE Then(EmitJoined(e, extract_eval_cmds(args)[1], 1), " | source")

\* dispatch_builtin: Some(result) is [handled |-> TRUE], None is FALSE
dispatch_builtin(e, name, cmd_words, redirects) ==
    IF name = <<"s", "h", "o", "p", "t">> THEN Handled(Unsupported(e, "shopt"))
    ELSE IF name = <<"r", "e", "a", "d">>
    THEN Handled(emit_read(e, cmd_words, redirects))
    ELSE IF name = <<"t", "r", "a", "p">>
    THEN Handled(emit_trap(e, Tail(cmd_words)))
    ELSE IF name = <<"s", "e", "l", "e", "c", "t">>
    THEN Handled(Unsupported(e, "select loop"))
    ELSE IF name = <<"g", "e", "t", "o", "p", "t", "s">>
    THEN Handled(Unsupported(e, "getopts (use argparse in fish)"))
    ELSE IF name = <<"e", "x", "e", "c">> /\ Len(cmd_words) = 1 /\ redirects # <<>>
    THEN Handled(Unsupported(e, "exec fd manipulation"))
    ELSE IF name = <<"e", "v", "a", "l">> THEN Handled(emit_eval(e, Tail(cmd_words)))
    ELSE IF name = <<"e", "x", "p", "o", "r", "t">>
    THEN Handled(emit_export(e, Tail(cmd_words)))
    ELSE IF name \in OtherBuiltins THEN Handled(NotEmitted(e, "builtin"))
    ELSE [handled |-> FALSE, e |-> e]

RECURSIVE EmitWords(_, _, _)
\* "Emit command and arguments"
EmitWords(e, cmd_words, i) ==
    IF e.st # "ok" \/ i > Len(cmd_words) THEN e
    ELSE EmitWords(Emit("word", IF i > 1 THEN push_str(e, " ") ELSE e, cmd_words[i]),
                   cmd_words, i + 1)

\* emit_var_assignments: `VAR=val` becomes `set VAR val`
RECURSIVE EmitVarAssignments(_, _, _)
EmitVarAssignments_NoLocal(e, env_vars, i) ==
    IF e.st # "ok" \/ i > Len(env_vars) THEN e
    ELSE LET e1 == push_str(IF i > 1 THEN push_str(e, NL) ELSE e,
                            "set " \o Str(env_vars[i].name))
         IN  EmitVarAssignments(
                 IF env_vars[i].value # <<>>
                 THEN Emit("word", push_str(e1, " "), env_vars[i].value[1])
                 ELSE e1,
                 env_vars, i + 1)

EmitVarAssignments(e, env_vars, i) ==
    IF e.st # "ok" \/ i > Len(env_vars) THEN e
    ELSE LET set_kw == IF e.in_subshell THEN "set -l " ELSE "set "
             e1 == push_str(IF i > 1 THEN push_str(e, NL) ELSE e,
                            set_kw \o Str(env_vars[i].name))
         IN  EmitVarAssignments(
                 IF env_vars[i].value # <<>>
                 THEN Emit("word", push_str(e1, " "), env_vars[i].value[1])
                 ELSE e1,
                 env_vars, i + 1)

emit_var_assignments(e, env_vars) == EmitVarAssignments(e, env_vars, 1)

MapfileArgFlags ==
    {<<"-", "O">>, <<"-", "s">>, <<"-", "c">>, <<"-", "C">>, <<"-", "d">>,
     <<"-", "n">>, <<"-", "u">>}

RECURSIVE MapfileVar(_, _, _, _)
\* emit_mapfile's loop over cmd_words[1..]: the name of the array to fill
MapfileVar(cmd_words, i, skip_next, var_name) ==
    IF i > Len(cmd_words) THEN var_name
    ELSE IF skip_next THEN MapfileVar(cmd_words, i + 1, FALSE, var_name)
    ELSE LET opt == word_as_str(cmd_words[i]) IN
         IF opt = <<>> THEN MapfileVar(cmd_words, i + 1, FALSE, var_name)
         ELSE IF opt[1] # <<>> /\ opt[1][1] = "-"
         THEN MapfileVar(cmd_words, i + 1, opt[1] \in MapfileArgFlags, var_name)
         ELSE MapfileVar(cmd_words, i + 1, FALSE, opt[1])

\* extract_procsub_cmds(word) is Some
IsProcSub(w) ==
    w.k = "Simple" /\ w.parts[1].k = "Bare" /\ w.parts[1].atom.k = "ProcSubIn"

emit_mapfile(e, cmd_words, redirects, herestring) ==
    LET var_name == Str(MapfileVar(cmd_words, 2, FALSE,
                                   <<"M", "A", "P", "F", "I", "L", "E">>))
        Split(w) ==
            LET e1 == Emit("word", push_str(e, "set " \o var_name
                                                \o " (string split -- \\n "), w)
            IN  IF e1.st # "ok" THEN e1 ELSE push_str(e1, ")")
        IsInput(r) == r.k \in {"HereString", "Read"}
        inputs == SelectSeq(redirects, IsInput)
    IN
    IF herestring # <<>> THEN Split(herestring[1])
    ELSE IF inputs = <<>> THEN push_str(e, "set " \o var_name \o " (cat)")
    ELSE IF inputs[1].k = "HereString" THEN Split(inputs[1].word)
    ELSE IF IsProcSub(inputs[1].word)
    THEN NotEmitted(push_str(e, "set " \o var_name \o " ("), "process substitution")
    ELSE LET e1 == Emit("word", push_str(e, "set " \o var_name \o " (cat "),
                             inputs[1].word)
         IN  IF e1.st # "ok" THEN e1 ELSE push_str(e1, ")")

emit_simple(e, c) ==
    LET IsAssign(x) == x.k = "Assign"
        IsArrayOp(x) == x.k \in {"ArrayAssign", "ArrayAppend"}
        IsWord(x) == x.k = "Word"
        IsPlainRedirect(x) ==
            x.k = "Redirect" /\ x.redir.k \notin {"HereString", "Heredoc"}
        IsHereString(x) == x.k = "Redirect" /\ x.redir.k = "HereString"
        IsHeredoc(x) == x.k = "Redirect" /\ x.redir.k = "Heredoc"
        env_vars == SelectSeq(c.prefix, IsAssign)
        array_ops == SelectSeq(c.prefix, IsArrayOp)
        words == SelectSeq(c.suffix, IsWord)
        cmd_words == [i \in 1..Len(words) |-> words[i].word]
        plain == SelectSeq(c.prefix, IsPlainRedirect)
                     \o SelectSeq(c.suffix, IsPlainRedirect)
        redirects == [i \in 1..Len(plain) |-> plain[i].redir]
        herestrings == SelectSeq(c.prefix \o c.suffix, IsHereString)
        herestring == IF herestrings = <<>> THEN <<>>
                      ELSE <<herestrings[Len(herestrings)].redir.word>>
        heredocs == SelectSeq(c.prefix \o c.suffix, IsHeredoc)
        cmd_name == IF cmd_words = <<>> THEN <<>> ELSE word_as_str(cmd_words[1])
    IN
    IF cmd_words = <<>> /\ array_ops # <<>>
    THEN NotEmitted(e, "emit_array_assignments")
    ELSE IF cmd_words = <<>> /\ env_vars # <<>>
    THEN emit_var_assignments(e, env_vars)
    ELSE IF cmd_name \in {<<<<"m", "a", "p", "f", "i", "l", "e">>>>,
                          <<<<"r", "e", "a", "d", "a", "r", "r", "a", "y">>>>}
    THEN emit_mapfile(e, cmd_words, redirects, herestring)
    ELSE
    LET e0 == IF herestring # <<>>
              THEN LET eh == Emit("word", push_str(e, "echo "), herestring[1])
                   IN  IF eh.st # "ok" THEN eh ELSE push_str(eh, " | ")
              ELSE e
    IN
    IF e0.st # "ok" THEN e0
    ELSE IF heredocs # <<>> THEN NotEmitted(e0, "emit_heredoc_body")
    ELSE IF env_vars # <<>> /\ cmd_words # <<>>
    THEN Unsupported(e0, "prefix assignment with command")
    ELSE
    LET d == IF cmd_name # <<>>
             THEN dispatch_builtin(e0, cmd_name[1], cmd_words, redirects)
             ELSE [handled |-> FALSE, e |-> e0]
    IN
    IF d.handled THEN d.e
    ELSE IF e0.in_subshell /\ cmd_name = <<<<"e", "x", "i", "t">>>>
    THEN Unsupported(e0, "exit in subshell")
    ELSE LET e1 == EmitWords(e0, cmd_words, 1) IN
         IF e1.st # "ok" THEN e1 ELSE emit_redirects(e1, redirects)

\* emit_standalone_arith
emit_standalone_arith(e, a) ==
    LET set_kw == IF e.in_subshell THEN "set -l " ELSE "set " IN
    CASE a.k \in {"PostInc", "PreInc"} ->
             push_str(e, set_kw \o Str(a.name) \o " (math " \o DQ \o "$"
                             \o Str(a.name) \o " + 1" \o DQ \o ")")
      [] a.k \in {"PostDec", "PreDec"} ->
             push_str(e, set_kw \o Str(a.name) \o " (math " \o DQ \o "$"
                             \o Str(a.name) \o " - 1" \o DQ \o ")")
      [] a.k = "Assign" ->
             push_str(e, set_kw \o Str(a.name) \o " (math " \o DQ
                             \o emit_arith(a.e) \o DQ \o ")")
      [] a.k \in {"Lt", "Le", "Gt", "Ge", "Eq", "Ne", "LogAnd", "LogOr", "LogNot"} ->
             push_str(e, emit_arith_condition(a))
      [] OTHER -> Unsupported(e, "unsupported standalone arithmetic expression")

\* Variant: the step is written in front of the body
CForWhile_StepFirst(e, kind) ==
    IF e.st # "ok" THEN e
    ELSE LET head == push_str(e, "while "
                         \o (IF kind.cond # <<>> THEN emit_arith_condition(kind.cond[1])
                             ELSE "true")
                         \o NL)
             e1 == IF kind.step = <<>> THEN head
                   ELSE Then(emit_standalone_arith(head, kind.step[1]), NL)
             e2 == IF e1.st # "ok" THEN e1 ELSE Emit("body", e1, kind.body)
         IN  Then(e2, NL \o "end")

\* The CFor arm of emit_compound_kind from `while` on
CForWhile(e, kind) ==
    IF e.st # "ok" THEN e
    ELSE LET head == push_str(e, "while "
                         \o (IF kind.cond # <<>> THEN emit_arith_condition(kind.cond[1])
                             ELSE "true")
                         \o NL)
             e1 == Emit("body", head, kind.body)
             e2 == IF e1.st # "ok" \/ kind.step = <<>> THEN e1
                   ELSE emit_standalone_arith(push_str(e1, NL), kind.step[1])
         IN  Then(e2, NL \o "end")

\* Variant: the flag is cleared after the body instead of put back
SubshellEnd_Clear(e1, prev) ==
    IF e1.st # "ok" THEN e1
    ELSE push_str([e1 EXCEPT !.in_subshell = FALSE],
                  NL \o "set -l __reef_rc $status; cd $__reef_pwd 2>/dev/null"
                     \o NL \o "end")

\* emit_compound_kind's Subshell arm after emit_body: ctx.in_subshell = prev
SubshellEnd(e1, prev) ==
    IF e1.st # "ok" THEN e1
    ELSE push_str([e1 EXCEPT !.in_subshell = prev],
                  NL \o "set -l __reef_rc $status; cd $__reef_pwd 2>/dev/null"
                     \o NL \o "end")

emit_compound_kind(e, kind) ==
    CASE kind.k = "Brace" ->
             Then(Emit("body", push_str(e, "begin" \o NL), kind.body), NL \o "end")
      [] kind.k = "Subshell" ->
             IF kind.body = <<>> THEN Unsupported(e, "empty subshell")
             ELSE SubshellEnd(
                      Emit("body",
                           [push_str(e, "begin" \o NL \o "set -l __reef_pwd (pwd)"
                                            \o NL)
                               EXCEPT !.in_subshell = TRUE],
                           kind.body),
                      e.in_subshell)
      [] kind.k = "CFor" ->
             CForWhile(IF kind.init = <<>> THEN e
                       ELSE Then(emit_standalone_arith(e, kind.init[1]), NL),
                       kind)
      [] OTHER -> NotEmitted(e, kind.k)

RECURSIVE CompoundRedirects(_, _, _)
\* emit_compound's loop over cmd.redirects; emit_redir is not followed
CompoundRedirects(e, redirects, i) ==
    IF e.st # "ok" \/ i > Len(redirects) THEN e
    ELSE IF redirects[i].k \in {"HereString", "Heredoc"}
    THEN CompoundRedirects(e, redirects, i + 1)
    ELSE NotEmitted(push_str(e, " "), "emit_redir")

\* emit_compound from emit_compound_kind on (e0 has the piped input written)
CompoundKindAndRedirects(e0, c) ==
    IF e0.st # "ok" THEN e0
    ELSE CompoundRedirects(emit_compound_kind(e0, c.kind), c.redirects, 1)

emit_compound(e, c) ==
    LET IsHereString(r) == r.k = "HereString"
        IsHeredoc(r) == r.k = "Heredoc"
        herestrings == SelectSeq(c.redirects, IsHereString)
    IN
    IF SelectSeq(c.redirects, IsHeredoc) # <<>>
    THEN NotEmitted(e, "emit_heredoc_body")
    ELSE CompoundKindAndRedirects(
             IF herestrings # <<>>
             THEN Then(Emit("word", push_str(e, "echo "), herestrings[1].word), " | ")
             ELSE e,
             c)

emit_exec(e, exec) ==
    IF exec.k = "Simple" THEN emit_simple(e, exec.cmd)
    ELSE IF exec.k = "Compound" THEN emit_compound(e, exec)
    ELSE NotEmitted(e, "function definition")

RECURSIVE EmitPipe(_, _, _)
EmitPipe(e, es, i) ==
    IF e.st # "ok" \/ i > Len(es) THEN e
    ELSE EmitPipe(emit_exec(IF i > 1 THEN push_str(e, " | ") ELSE e, es[i]),
                  es, i + 1)

emit_pipeline(e, pl) ==
    IF pl.k = "Single" THEN emit_exec(e, pl.cmds[1])
    ELSE EmitPipe(IF pl.negated THEN push_str(e, "not ") ELSE e, pl.cmds, 1)

RECURSIVE EmitRest(_, _, _)
EmitRest(e, rest, i) ==
    IF e.st # "ok" \/ i > Len(rest) THEN e
    ELSE EmitRest(emit_pipeline(push_str(e, IF rest[i].k = "And" THEN "; and "
                                            ELSE "; or "),
                                rest[i].pipeline),
                  rest, i + 1)

emit_and_or_AndFirst(e, list) ==
    LET IsAnd(x) == x.k = "And"
        IsOr(x) == x.k = "Or"
    IN  EmitRest(emit_pipeline(e, list.first),
                 SelectSeq(list.rest, IsAnd) \o SelectSeq(list.rest, IsOr), 1)

emit_and_or(e, list) == EmitRest(emit_pipeline(e, list.first), list.rest, 1)

emit_cmd(e, c) ==
    LET e1 == emit_and_or(e, c.list) IN
    IF c.k = "Job" /\ e1.st = "ok" THEN push_str(e1, " &") ELSE e1

RECURSIVE EmitBody(_, _, _)
EmitBody(e, body, i) ==
    IF e.st # "ok" \/ i > Len(body) THEN e
    ELSE EmitBody(Emit("cmd", IF i > 1 THEN push_str(e, NL) ELSE e, body[i]),
                  body, i + 1)

emit_body(e, body) == EmitBody(e, body, 1)

\* translate_bash_to_fish called by an emitter: the parse and the loop over
\* the commands with a Ctx and a buffer of their own
Translated(r) ==
    IF r.p.st # "ok" THEN ParseErrorIn(NewEmit, r.p) ELSE EmitBody(NewEmit, r.v, 1)

translate_bash_to_fish(input) == Translated(Call("parse", NewParser(input), <<>>))

Emit(fn, e, a) ==
    CASE fn = "cmd" -> emit_cmd(e, a)
      [] fn = "body" -> emit_body(e, a)
      [] fn = "word" -> emit_word(e, a)
      [] fn = "word_unquoted" -> emit_word_unquoted(e, a)
      [] fn = "translate" -> translate_bash_to_fish(a)

-----------------------------------------------------------------------------
(* translate_bash_to_fish: one action for the parse, one per turn of its   *)
(* loop over the commands, one for its return.                             *)

\* Most links of an and-or chain
MaxLinks == 3

\* Commands, separators and the builtins `shopt` and `read` with arguments
TrTokens ==
    {<<"a">>, <<"a", "&", "&">>, <<"&">>, <<NL>>,
     <<"s", "h", "o", "p", "t">>, <<"r", "e", "a", "d">>,
     <<SP, SQ, SQ>>, <<SP, "-", "p", "n">>}


\* Pipelines of an and-or chain, each with the fish text emit_pipeline gives
ChainPipelines ==
    {[src |-> <<"a">>, fish |-> "a"],
     [src |-> <<"b", "|", "c">>, fish |-> "b | c"],
     [src |-> <<"!", SP, "d", "|", "e">>, fish |-> "not d | e"]}

ChainOps ==
    {[src |-> <<"&", "&">>, k |-> "And", fish |-> "; and "],
     [src |-> <<SP, "&", "&", SP>>, k |-> "And", fish |-> "; and "],
     [src |-> <<SP, "|", "|", NL>>, k |-> "Or", fish |-> "; or "]}

\* The and-or chains of at most `links` links
Chains(links) ==
    {[f |-> "and_or", first |-> first, links |-> rest] :
        first \in ChainPipelines,
        rest \in UNION {[1..n -> [op : ChainOps, pl : ChainPipelines]] :
                           n \in 0..links}}

ChainText(c) ==
    c.first.src
        \o Flatten([i \in 1..Len(c.links) |->
                        c.links[i].op.src \o c.links[i].pl.src])

\* The inputs of translate_bash_to_fish, and what is known of each
TrStarts(tokens, links) ==
    {[src |-> input, probe |-> NoProbe] : input \in TokenInputs(TrTokens, tokens)}
        \cup {[src |-> ChainText(c), probe |-> c] : c \in Chains(links)}

InitTr ==
    /\ NoDaemon
    /\ \E s \in TrStarts(MaxTokens, MaxLinks) : parser = NewParser(s.src) /\ probe = s.probe
    /\ cmds = <<>>
    /\ pc = "translate"
    /\ result = NoResult
    /\ out = ""
    /\ ctx = NoCtx
    /\ idx = 0

\* `Parser::new(input).parse()?` failing: From<ParseError> for TranslateError
ParseFailed(p) ==
    IF p.st = "err"
    THEN [k |-> "Err", err |-> [k |-> "Parse", pos |-> p.epos, msg |-> p.emsg],
          text |-> <<>>]
    ELSE [k |-> p.st, at |-> "parse", text |-> <<>>]

TranslateFailed_KeepText(e) ==
    [k |-> "Err", err |-> [k |-> "Unsupported", msg |-> e.msg], text |-> <<e.out>>]

\* `emit_cmd(&mut ctx, cmd, &mut out)?` failing: the error alone is returned
TranslateFailed(e) ==
    IF e.st = "err"
    THEN [k |-> "Err", err |-> [k |-> "Unsupported", msg |-> e.msg], text |-> <<>>]
    ELSE IF e.st = "parse"
    THEN [k |-> "Err", err |-> [k |-> "Parse", msg |-> e.msg], text |-> <<>>]
    ELSE [k |-> e.st, at |-> "emit", msg |-> e.msg, text |-> <<>>]

TrParse ==
    /\ pc = "translate"
    /\ \E r \in {Call("parse", parser, <<>>)} :
       /\ parser' = r.p
       /\ IF r.p.st = "ok"
          THEN cmds' = r.v /\ pc' = "emit" /\ result' = result
          ELSE cmds' = cmds /\ pc' = "returned" /\ result' = ParseFailed(r.p)
    /\ UNCHANGED <<out, ctx, idx, probe>>
    /\ UNCHANGED daemon_vars

TrEmitCmd ==
    /\ pc = "emit"
    /\ idx < Len(cmds)
    /\ \E e \in {Emit("cmd", [out |-> IF idx > 0 THEN out \o NL ELSE out,
                                in_subshell |-> ctx.in_subshell,
                                st |-> "ok", msg |-> ""],
                        cmds[idx + 1])} :
           /\ out' = e.out
           /\ ctx' = [in_subshell |-> e.in_subshell]
           /\ IF e.st = "ok"
              THEN idx' = idx + 1 /\ pc' = pc /\ result' = result
              ELSE idx' = idx /\ pc' = "returned" /\ result' = TranslateFailed(e)
    /\ UNCHANGED <<parser, cmds, probe>>
    /\ UNCHANGED daemon_vars

TrReturn ==
    /\ pc = "emit"
    /\ idx = Len(cmds)
    /\ result' = [k |-> "Ok", text |-> <<out>>]
    /\ pc' = "returned"
    /\ UNCHANGED <<parser, cmds, out, ctx, idx, probe>>
    /\ UNCHANGED daemon_vars

NextTr == TrParse \/ TrEmitCmd \/ TrReturn

SpecTr == InitTr /\ [][NextTr]_vars

\* Every emitter the inputs reach is one the model follows.
AllEmitted == result.k # "unmodelled"

-----------------------------------------------------------------------------
(* Properties of translate_bash_to_fish.                                   *)

\* C2: once parsing has succeeded, translate_bash_to_fish returns Ok(text) or
\* Err(Unsupported(reason)); no emitter panics.
TranslateNeverPanics ==
    (pc = "returned" /\ parser.st = "ok") =>
        \/ result.k = "Ok"
        \/ result.k = "Err" /\ result.err.k = "Unsupported"

PipelineOf(pl) == Call("parse", NewParser(pl.src), <<>>).v[1].list.first

ChainRest(c) ==
    [i \in 1..Len(c.links) |->
        IF c.links[i].op.k = "And" THEN And(PipelineOf(c.links[i].pl))
        ELSE Or(PipelineOf(c.links[i].pl))]

RECURSIVE ChainFish(_, _)
ChainFish(c, n) ==
    IF n = 0 THEN c.first.fish
    ELSE ChainFish(c, n - 1) \o c.links[n].op.fish \o c.links[n].pl.fish

\* C10: an and-or chain p0 op1 p1 ... opn pn parses to one list holding p0
\* and then, in source order, And(pi) for each && and Or(pi) for each ||,
\* whatever the mix of operators; its fish text is p0 followed in the same
\* order by "; and pi" and "; or pi".
AndOrInOrder ==
    (probe.f = "and_or" /\ pc \in {"emit", "returned"}) =>
        /\ cmds = <<CmdList(AndOrList(PipelineOf(probe.first), ChainRest(probe)))>>
        /\ pc = "returned" =>
               result = [k |-> "Ok", text |-> <<ChainFish(probe, Len(probe.links))>>]

\* A chain that mixes || before && has been parsed and emitted.
AndOrInOrderWitness ==
    /\ probe.f = "and_or"
    /\ pc = "returned"
    /\ result.k = "Ok"
    /\ Len(probe.links) = MaxLinks
    /\ probe.links[1].op.k = "Or"
    /\ probe.links[2].op.k = "And"
    /\ probe.links[3].op.k = "Or"

-----------------------------------------------------------------------------
(* Simple commands with prefix assignments.                                *)

\* Assignments, command words and builtins that have an emitter of their own
PrefixTokens ==
    {<<"A", "=", "1">>, <<SP>>, <<"a">>, <<"r", "e", "a", "d">>,
     <<"m", "a", "p", "f", "i", "l", "e">>, <<"s", "h", "o", "p", "t">>}

InitPrefix ==
    /\ NoDaemon
    /\ \E input \in TokenInputs(PrefixTokens, MaxTokens) : parser = NewParser(input)
    /\ probe = NoProbe
    /\ cmds = <<>>
    /\ pc = "translate"
    /\ result = NoResult
    /\ out = ""
    /\ ctx = NoCtx
    /\ idx = 0

SpecPrefix == InitPrefix /\ [][NextTr]_vars

\* The simple command that is the whole of command c, <<>> when c is not one
SimpleOf(c) ==
    IF c.list.rest = <<>> /\ c.list.first.k = "Single"
           /\ c.list.first.cmds[1].k = "Simple"
    THEN <<c.list.first.cmds[1].cmd>>
    ELSE <<>>

HasAssign(sc) == \E i \in 1..Len(sc.prefix) : sc.prefix[i].k = "Assign"

HasWord(sc) == \E i \in 1..Len(sc.suffix) : sc.suffix[i].k = "Word"

\* C11: a simple command with a NAME=value prefix and a command word is
\* answered with Err(Unsupported), whatever the command word is.
PrefixAssignmentUnsupported ==
    (pc = "returned" /\ parser.st = "ok" /\ Len(cmds) = 1
        /\ SimpleOf(cmds[1]) # <<>>
        /\ HasAssign(SimpleOf(cmds[1])[1]) /\ HasWord(SimpleOf(cmds[1])[1]))
    => (result.k = "Err" /\ result.err.k = "Unsupported")

-----------------------------------------------------------------------------
(* Subshells: `exit` and EXIT traps inside `( ... )`.                      *)

KwExit == <<"e", "x", "i", "t">>
KwTrap == <<"t", "r", "a", "p">>
SigExit == <<"E", "X", "I", "T">>

\* Most statements of an input
MaxStmts == 2

\* Statements: `exit`, traps that set, clear and reset handlers, a plain
\* command, and assignments
Cores ==
    {KwExit,
     KwTrap \o <<SP, SQ, SQ, SP>> \o SigExit,
     KwTrap \o <<SP, SQ, "a", SQ, SP, "0">>,
     KwTrap \o <<SP, "-", SP>> \o SigExit,
     KwTrap \o <<SP, "a", SP, "I", "N", "T">>,
     <<"a">>,
     <<"A", "=", "1">>,
     <<"A", "=">>,
     <<"A", "=", "1", SP, "B", "=", SQ, "b", SQ>>}

\* The fish text that opens and closes a subshell and a brace group
SubOpen == "begin" \o NL \o "set -l __reef_pwd (pwd)" \o NL
SubClose == NL \o "set -l __reef_rc $status; cd $__reef_pwd 2>/dev/null" \o NL \o "end"
BraceOpen == "begin" \o NL
BraceClose == NL \o "end"

\* What a statement is put in: nothing, a subshell, a brace group, and
\* groups inside one another.  sub tells whether the statement is in a
\* subshell; fpre and fpost are the fish text of what surrounds it.
Wrappers ==
    {[pre |-> <<>>, post |-> <<>>, sub |-> FALSE, fpre |-> "", fpost |-> ""],
     [pre |-> <<"(">>, post |-> <<")">>, sub |-> TRUE,
      fpre |-> SubOpen, fpost |-> SubClose],
     [pre |-> <<"{", SP>>, post |-> <<";", "}">>, sub |-> FALSE,
      fpre |-> BraceOpen, fpost |-> BraceClose],
     [pre |-> <<"(", "{", SP>>, post |-> <<";", "}", ")">>, sub |-> TRUE,
      fpre |-> SubOpen \o BraceOpen, fpost |-> BraceClose \o SubClose],
     [pre |-> <<"{", SP, "(">>, post |-> <<")", ";", "}">>, sub |-> TRUE,
      fpre |-> BraceOpen \o SubOpen, fpost |-> SubClose \o BraceClose],
     [pre |-> <<"(", "a", ";">>, post |-> <<")">>, sub |-> TRUE,
      fpre |-> SubOpen \o "a" \o NL, fpost |-> SubClose],
     [pre |-> <<"(", "a", ")", NL>>, post |-> <<>>, sub |-> FALSE,
      fpre |-> SubOpen \o "a" \o SubClose \o NL, fpost |-> ""]}

\* Statements that follow the first one, with their fish text
Fillers ==
    {[src |-> <<NL, "a">>, fish |-> NL \o "a"],
     [src |-> <<NL, "A", "=", "1">>, fish |-> NL \o "set A 1"],
     [src |-> <<";", "(", "A", "=", "1", ")">>,
      fish |-> NL \o SubOpen \o "set -l A 1" \o SubClose]}

\* A wrapped statement followed by at most n - 1 further statements
Statements(n) ==
    {[f |-> "stmt", core |-> c, wrap |-> w, more |-> m] :
        c \in Cores, w \in Wrappers,
        m \in UNION {[1..k -> Fillers] : k \in 0..(n - 1)}}

StatementText(x) ==
    x.wrap.pre \o x.core \o x.wrap.post
        \o Flatten([i \in 1..Len(x.more) |-> x.more[i].src])

InitSubshell ==
    /\ NoDaemon
    /\ \E x \in Statements(MaxStmts) :
           parser = NewParser(StatementText(x)) /\ probe = x
    /\ cmds = <<>>
    /\ pc = "translate"
    /\ result = NoResult
    /\ out = ""
    /\ ctx = NoCtx
    /\ idx = 0

SpecSubshell == InitSubshell /\ [][NextTr]_vars

\* The executables of the pipelines of one command
ExecsOf(c) ==
    {c.list.first.cmds[i] : i \in 1..Len(c.list.first.cmds)}
        \cup UNION {{c.list.rest[n].pipeline.cmds[i] :
                        i \in 1..Len(c.list.rest[n].pipeline.cmds)} :
                    n \in 1..Len(c.list.rest)}

RECURSIVE ExecsIn(_)
\* The executables of a command list, at any depth of brace groups and subshells
ExecsIn(body) ==
    LET top == UNION {ExecsOf(body[i]) : i \in 1..Len(body)}
        IsGroup(x) == x.k = "Compound" /\ x.kind.k \in {"Brace", "Subshell"}
    IN  top \cup UNION {ExecsIn(x.kind.body) : x \in {y \in top : IsGroup(y)}}

\* The command words of a simple command
WordsOf(sc) ==
    LET IsWord(x) == x.k = "Word"
        words == SelectSeq(sc.suffix, IsWord)
    IN  [i \in 1..Len(words) |-> words[i].word]

\* `exit ...`
IsExitCmd(words) == words # <<>> /\ word_as_str(words[1]) = <<KwExit>>

\* `trap ... EXIT` or `trap ... 0`
IsExitTrap(words) ==
    /\ Len(words) >= 3
    /\ word_as_str(words[1]) = <<KwTrap>>
    /\ \E i \in 3..Len(words) : word_as_str(words[i]) \in {<<SigExit>>, <<<<"0">>>>}

\* Some subshell of the command list has an `exit` or an EXIT trap inside
ExitInSubshell(body) ==
    \E x \in ExecsIn(body) :
        /\ x.k = "Compound" /\ x.kind.k = "Subshell"
        /\ \E y \in ExecsIn(x.kind.body) :
               y.k = "Simple"
                   /\ (IsExitCmd(WordsOf(y.cmd)) \/ IsExitTrap(WordsOf(y.cmd)))

\* C12: when a subshell body holds, at any depth, an `exit` command or a
\* `trap ... EXIT` / `trap ... 0`, translation returns Err(Unsupported).
ExitInSubshellUnsupported ==
    (pc = "returned" /\ parser.st = "ok" /\ ExitInSubshell(cmds))
        => (result.k = "Err" /\ result.err.k = "Unsupported")

\* The assignments among the statements, and the fish text of each with
\* the scope keyword kw
AssignCores ==
    {<<"A", "=", "1">>, <<"A", "=">>, <<"A", "=", "1", SP, "B", "=", SQ, "b", SQ>>}

SetText(core, kw) ==
    CASE core = <<"A", "=", "1">> -> kw \o "A 1"
      [] core = <<"A", "=">> -> kw \o "A"
      [] OTHER -> kw \o "A 1" \o NL \o kw \o "B 'b'"

RECURSIVE FillerFish(_, _)
FillerFish(more, n) ==
    IF n = 0 THEN "" ELSE FillerFish(more, n - 1) \o more[n].fish

\* C13: a standalone assignment is emitted with `set ` when it is not in a
\* subshell body and with `set -l ` when it is in one, whatever encloses the
\* subshell or is nested in it, and whatever statements follow.
AssignmentScope ==
    (probe.f = "stmt" /\ probe.core \in AssignCores /\ pc = "returned") =>
        result = [k |-> "Ok",
                  text |-> <<probe.wrap.fpre
                               \o SetText(probe.core,
                                          IF probe.wrap.sub THEN "set -l " ELSE "set ")
                               \o probe.wrap.fpost
                               \o FillerFish(probe.more, Len(probe.more))>>]

\* Two assignments in a brace group in a subshell have been emitted, and an
\* assignment after the subshell.
AssignmentScopeWitness ==
    /\ probe.f = "stmt"
    /\ pc = "returned"
    /\ probe.core = <<"A", "=", "1", SP, "B", "=", SQ, "b", SQ>>
    /\ probe.wrap.pre = <<"(", "{", SP>>
    /\ Len(probe.more) = 1
    /\ probe.more[1].src = <<NL, "A", "=", "1">>
    /\ result.k = "Ok"

-----------------------------------------------------------------------------
(* Variables and parameters in words and in arithmetic.                    *)

VarLineno == <<"L", "I", "N", "E", "N", "O">>
VarSeconds == <<"S", "E", "C", "O", "N", "D", "S">>
VarFuncname == <<"F", "U", "N", "C", "N", "A", "M", "E">>

\* References to variables and parameters
RefTokens ==
    {<<"$">> \o VarLineno, <<"$">> \o VarSeconds, <<"$">> \o VarFuncname,
     VarSeconds, <<"$", "x">>, <<"$", "1">>, <<"$", "?">>, <<"$", "@">>,
     <<"$", "#">>, <<"$", "$">>, <<"$", "!">>,
     <<"$", "{">> \o VarLineno \o <<"}">>, <<"$", "{", "#">> \o VarSeconds \o <<"}">>,
     <<"$", "{", "2", "}">>, <<"2">>}

\* Operators between two operands of an arithmetic expansion
RefOps == {<<>>, <<"+">>, <<">">>, <<SP, "&", "&", SP>>}

\* Where a reference stands: a bare word, in double quotes, in $(( ))
RefPlaces ==
    {[pre |-> <<"a", SP>>, post |-> <<>>, arith |-> FALSE],
     [pre |-> <<"a", SP, DQ, "b">>, post |-> <<DQ>>, arith |-> FALSE],
     [pre |-> <<"a", SP, "$", "(", "(">>, post |-> <<")", ")">>, arith |-> TRUE],
     [pre |-> <<"a", SP, DQ, "$", "(", "(">>, post |-> <<")", ")", DQ>>,
      arith |-> TRUE]}

\* A reference in a place, alone or as the first operand of an operator
References ==
    {[f |-> "ref", place |-> pl, l |-> l, op |-> op, r |-> r] :
        pl \in RefPlaces, l \in RefTokens, op \in RefOps, r \in RefTokens}

ReferenceText(x) ==
    x.place.pre \o x.l \o (IF x.op = <<>> THEN <<>> ELSE x.op \o x.r) \o x.place.post

InitRef ==
    /\ NoDaemon
    /\ \E x \in {y \in References : /\ y.op = <<>> => y.r = <<"2">>
                                    /\ y.op # <<>> => y.place.arith} :
           parser = NewParser(ReferenceText(x)) /\ probe = x
    /\ cmds = <<>>
    /\ pc = "translate"
    /\ result = NoResult
    /\ out = ""
    /\ ctx = NoCtx
    /\ idx = 0

SpecRef == InitRef /\ [][NextTr]_vars

\* The reference x names one of LINENO, FUNCNAME, SECONDS
NamesUntranslatable(x) ==
    \E v \in {VarLineno, VarSeconds, VarFuncname} :
        \/ x.l \in {<<"$">> \o v, <<"$", "{">> \o v \o <<"}">>,
                    <<"$", "{", "#">> \o v \o <<"}">>}
        \/ x.place.arith /\ x.l = v
        \/ x.op # <<>>
               /\ \/ x.r \in {<<"$">> \o v, <<"$", "{">> \o v \o <<"}">>,
                              <<"$", "{", "#">> \o v \o <<"}">>}
                  \/ x.place.arith /\ x.r = v

\* C14: a reference to $LINENO, $FUNCNAME or $SECONDS as a bare word, in
\* double quotes, in a ${...} expansion or as a variable of an arithmetic
\* expression makes translation return Err(Unsupported).
UntranslatableVarsRejected ==
    (probe.f = "ref" /\ pc = "returned" /\ parser.st = "ok"
        /\ NamesUntranslatable(probe))
    => (result.k = "Err" /\ result.err.k = "Unsupported")

\* The fish text the parameter mapping gives for a reference
FishOfRef(tok) ==
    CASE tok = <<"$", "1">> -> "$argv[1]"
      [] tok = <<"$", "{", "2", "}">> -> "$argv[2]"
      [] tok = <<"$", "?">> -> "$status"
      [] tok = <<"$", "@">> -> "$argv"
      [] tok = <<"$", "#">> -> "(count $argv)"
      [] tok = <<"$", "$">> -> "$fish_pid"
      [] tok = <<"$", "!">> -> "$last_pid"
      [] tok = <<"$", "x">> -> "$x"
      [] tok = <<"2">> -> "2"

MappedRefs ==
    {<<"$", "1">>, <<"$", "{", "2", "}">>, <<"$", "?">>, <<"$", "@">>, <<"$", "#">>,
     <<"$", "$">>, <<"$", "!">>, <<"$", "x">>, <<"2">>}

\* The arithmetic expansion of `l op r` with every operand mapped
FishOfArith(l, op, r) ==
    CASE op = <<>> -> "(math " \o DQ \o FishOfRef(l) \o DQ \o ")"
      [] op = <<"+">> ->
             "(math " \o DQ \o FishOfRef(l) \o " + " \o FishOfRef(r) \o DQ \o ")"
      [] op = <<">">> ->
             "(test " \o FishOfRef(l) \o " -gt " \o FishOfRef(r)
                 \o "; and echo 1; or echo 0)"
      [] OTHER ->
             "(test " \o FishOfRef(l) \o " -ne 0; and test " \o FishOfRef(r)
                 \o " -ne 0; and echo 1; or echo 0)"

FishOfReference(x) ==
    IF x.place.arith
    THEN (IF x.place.post = <<")", ")">> THEN "a " ELSE "a " \o DQ \o DQ)
             \o FishOfArith(x.l, x.op, x.r)
    ELSE IF x.place.post = <<>> THEN "a " \o FishOfRef(x.l)
    ELSE "a " \o DQ \o "b" \o FishOfRef(x.l) \o DQ

HasPositional(x) ==
    x.l \in {<<"$", "1">>, <<"$", "{", "2", "}">>}
        \/ (x.op # <<>> /\ x.r \in {<<"$", "1">>, <<"$", "{", "2", "}">>})

\* C15: wherever a positional or special parameter stands (a bare word, a
\* double-quoted string, an arithmetic value, an arithmetic condition), the
\* emitted fish text has the parameter's fish equivalent in its place: $N is
\* $argv[N], $? is $status, $@ is $argv, $# is (count $argv), $$ is
\* $fish_pid and $! is $last_pid.
ParamsMapped ==
    (probe.f = "ref" /\ pc = "returned" /\ result.k = "Ok"
        /\ probe.l \in MappedRefs /\ probe.r \in MappedRefs)
    => result.text = <<FishOfReference(probe)>>

-----------------------------------------------------------------------------
(* `exec` with redirections only, and `eval`.                              *)

KwExec == <<"e", "x", "e", "c">>
KwEval == <<"e", "v", "a", "l">>

ExecEvalTokens ==
    {KwExec, KwEval, <<SP>>, <<"3", ">", "&", "1">>, <<"<", "<", "<", "x">>,
     <<"$", "c">>, <<DQ, "$", "c", DQ>>, <<"a">>}

InitExecEval ==
    /\ NoDaemon
    /\ \E input \in TokenInputs(ExecEvalTokens, MaxTokens) : parser = NewParser(input)
    /\ probe = NoProbe
    /\ cmds = <<>>
    /\ pc = "translate"
    /\ result = NoResult
    /\ out = ""
    /\ ctx = NoCtx
    /\ idx = 0

SpecExecEval == InitExecEval /\ [][NextTr]_vars

HasRedirect(sc) ==
    \/ \E i \in 1..Len(sc.prefix) : sc.prefix[i].k = "Redirect"
    \/ \E i \in 1..Len(sc.suffix) : sc.suffix[i].k = "Redirect"

\* `exec` with redirections and no command
IsExecRedirectsOnly(sc) ==
    /\ Len(WordsOf(sc)) = 1
    /\ word_as_str(WordsOf(sc)[1]) = <<KwExec>>
    /\ HasRedirect(sc)

\* A word that is a parameter expansion, such as $cmd
IsParamWord(w) ==
    w.k = "Simple" /\ w.parts[1].k = "Bare" /\ w.parts[1].atom.k = "Param"

\* `eval` with a parameter expansion among its arguments
IsDynamicEval(sc) ==
    /\ Len(WordsOf(sc)) >= 2
    /\ word_as_str(WordsOf(sc)[1]) = <<KwEval>>
    /\ \E i \in 2..Len(WordsOf(sc)) : IsParamWord(WordsOf(sc)[i])

\* C16: `exec` with only redirections and no command, and `eval` of a
\* dynamic word such as $cmd, are both answered with Err(Unsupported), so
\* that no fish text is returned for them.
ExecEvalUnsupported ==
    (pc = "returned" /\ parser.st = "ok" /\ Len(cmds) = 1
        /\ SimpleOf(cmds[1]) # <<>>
        /\ \/ IsExecRedirectsOnly(SimpleOf(cmds[1])[1])
           \/ IsDynamicEval(SimpleOf(cmds[1])[1]))
    => (result.k = "Err" /\ result.err.k = "Unsupported")

-----------------------------------------------------------------------------
(* Pipelines with `|&`.                                                    *)

\* Most stages of a pipeline
MaxStages == 3

Stages ==
    {<<"a">>, <<"a", ">", "f">>, <<"(", "a", ")">>, <<"{", SP, "a", ";", "}">>}

\* Connectors: a plain pipe, and `|&` without and with blanks around it
Connectors ==
    {[stderr |-> FALSE, pre |-> <<>>, post |-> <<>>],
     [stderr |-> TRUE, pre |-> <<>>, post |-> <<>>],
     [stderr |-> TRUE, pre |-> <<SP>>, post |-> <<SP>>]}

Links(n) ==
    UNION {[1..m -> [conn : Connectors, stage : Stages]] : m \in 0..(n - 1)}

\* Pipelines of at most n stages
Pipelines(n) ==
    {[f |-> "pipe", first |-> st, links |-> ls] : st \in Stages, ls \in Links(n)}

\* The text of pipeline x; with `rewritten`, every `|&` is written ` 2>&1 |`
PipelineText(x, rewritten) ==
    LET ConnText(c) ==
            IF ~c.stderr THEN <<"|">>
            ELSE IF rewritten THEN c.pre \o <<SP, "2", ">", "&", "1", SP, "|">> \o c.post
            ELSE c.pre \o <<"|", "&">> \o c.post
    IN  x.first \o Flatten([i \in 1..Len(x.links) |->
                               ConnText(x.links[i].conn) \o x.links[i].stage])

InitPipe ==
    /\ NoDaemon
    /\ \E x \in Pipelines(MaxStages) :
           parser = NewParser(PipelineText(x, FALSE)) /\ probe = x
    /\ cmds = <<>>
    /\ pc = "translate"
    /\ result = NoResult
    /\ out = ""
    /\ ctx = NoCtx
    /\ idx = 0

SpecPipe == InitPipe /\ [][NextTr]_vars

\* The stages of the pipeline that is the whole of command c
StagesOf(c) == c.list.first.cmds

\* The redirects at the end of stage e
TrailingRedirects(e) ==
    IF e.k = "Simple"
    THEN {e.cmd.suffix[i].redir :
             i \in {j \in 1..Len(e.cmd.suffix) : e.cmd.suffix[j].k = "Redirect"}}
    ELSE {e.redirects[i] : i \in 1..Len(e.redirects)}

\* C17: a pipeline written with `|&` parses to the pipeline that the same
\* text with ` 2>&1 |` in place of every `|&` parses to: the same stages in
\* the same order, the 2>&1 redirect on the stage before the `|&` and on no
\* other stage.
StderrPipeRewritten ==
    (probe.f = "pipe" /\ pc # "translate")
    => \E r \in {Call("parse", NewParser(PipelineText(probe, TRUE)), <<>>)} :
           /\ r.p.st = parser.st
           /\ parser.st = "ok" => r.v = cmds

\* `a | b |& c` has been parsed: three stages, 2>&1 on the second only
StderrPipeRewrittenWitness ==
    /\ probe.f = "pipe" /\ pc = "returned" /\ parser.st = "ok"
    /\ Len(probe.links) = 2
    /\ ~probe.links[1].conn.stderr /\ probe.links[2].conn.stderr
    /\ Len(cmds) = 1 /\ Len(StagesOf(cmds[1])) = 3
    /\ Redir2to1 \notin TrailingRedirects(StagesOf(cmds[1])[1])
    /\ Redir2to1 \in TrailingRedirects(StagesOf(cmds[1])[2])
    /\ Redir2to1 \notin TrailingRedirects(StagesOf(cmds[1])[3])

-----------------------------------------------------------------------------
(* C-style for loops.                                                      *)

\* Initializers and steps: bash text, and the fish statement after the
\* `set ` or `set -l ` keyword (<<>> where the loop has none)
ForStatements ==
    {[src |-> <<>>, fish |-> <<>>],
     [src |-> <<"i", "=", "0">>, fish |-> <<"i (math " \o DQ \o "0" \o DQ \o ")">>],
     [src |-> <<"i", "+", "+">>, fish |-> <<"i (math " \o DQ \o "$i + 1" \o DQ \o ")">>],
     [src |-> <<"i", "=", "i", "*", "2">>,
      fish |-> <<"i (math " \o DQ \o "$i * 2" \o DQ \o ")">>]}

\* Conditions: bash text and fish command
ForConditions ==
    {[src |-> <<>>, fish |-> "true"],
     [src |-> <<"i", "<", "3">>, fish |-> "test $i -lt 3"],
     [src |-> <<"i">>, fish |-> "test $i -ne 0"]}

\* Loop bodies: bash text and fish text
ForBodies ==
    {[src |-> <<>>, fish |-> ""],
     [src |-> <<"a", NL>>, fish |-> "a"],
     [src |-> <<"a", ";", "b", ";">>, fish |-> "a" \o NL \o "b"],
     [src |-> <<"B", "=", "1", NL>>, fish |-> "set B 1"]}

\* What stands between `))` and `do`
ForSeparators == {<<>>, <<";", SP>>, <<NL>>}

ForLoops ==
    {[f |-> "cfor", init |-> i, cond |-> c, step |-> st, body |-> b, sep |-> sp] :
        i \in ForStatements, c \in ForConditions, st \in ForStatements,
        b \in ForBodies, sp \in ForSeparators}

ForLoopText(x) ==
    KwFor \o <<SP, "(", "(">> \o x.init.src \o <<";", SP>> \o x.cond.src \o <<";">>
        \o x.step.src \o <<")", ")">> \o x.sep \o KwDo \o <<SP>> \o x.body.src
        \o KwDone

InitCFor ==
    /\ NoDaemon
    /\ \E x \in ForLoops : parser = NewParser(ForLoopText(x)) /\ probe = x
    /\ cmds = <<>>
    /\ pc = "translate"
    /\ result = NoResult
    /\ out = ""
    /\ ctx = NoCtx
    /\ idx = 0

SpecCFor == InitCFor /\ [][NextTr]_vars

\* Initializer, `while` on the condition, body, step, `end`
ForLoopFish(x) ==
    (IF x.init.fish = <<>> THEN "" ELSE "set " \o x.init.fish[1] \o NL)
        \o "while " \o x.cond.fish \o NL
        \o x.body.fish
        \o (IF x.step.fish = <<>> THEN "" ELSE NL \o "set " \o x.step.fish[1])
        \o NL \o "end"

\* C18: a C-style for loop is emitted as the initializer statement (if
\* there is one), `while` with the translated condition (`while true` when
\* the condition is empty), the translated body, and the step statement (if
\* there is one) as the last statement before `end`, in this order.
CForEmitted ==
    (probe.f = "cfor" /\ pc = "returned")
    => result = [k |-> "Ok", text |-> <<ForLoopFish(probe)>>]

\* A loop with initializer, condition, body and step has been translated
CForEmittedWitness ==
    /\ probe.f = "cfor" /\ pc = "returned" /\ result.k = "Ok"
    /\ probe.init.src # <<>> /\ probe.cond.src # <<>> /\ probe.step.src # <<>>
    /\ probe.body.src = <<"a", ";", "b", ";">>
    /\ probe.init.src # probe.step.src

-----------------------------------------------------------------------------
(* Parse errors in nested content.                                         *)

\* What stands in front of the command with the nested content: nothing,
\* blanks, an empty line, a comment
NestPrefixes == {<<>>, <<SP, SP>>, <<NL>>, <<"#", "c", NL>>}

\* Content of a backtick substitution with an error in it
BacktickContents ==
    {<<")">>, <<"}">>, <<SP, ")">>, <<";", ")">>, <<NL, "}">>, <<"#", "c", NL, ")">>,
     <<SP, ";", SP, "}">>, <<"&", ")">>}

\* Content of an interpolated heredoc body with an error in it
HeredocContents ==
    {<<"$", "{", "}">>, <<"b", "$", "{">>, <<"$", "(", "(">>, <<"b", BQ>>,
     <<"$", "(", "(", "1", "+", ")", ")">>, <<"$", "{", "}", "b">>,
     <<BS, "$", BQ>>, <<"$", "x", "$", "{">>}

\* Plain words, for inputs without nested content
PlainContents == {<<"a">>, <<"a", SP, "b">>}

NestInputs ==
    {[f |-> "nest", kind |-> "backtick", pre |-> pre, content |-> c] :
        pre \in NestPrefixes, c \in BacktickContents}
    \cup {[f |-> "nest", kind |-> "heredoc", pre |-> pre, content |-> c] :
              pre \in NestPrefixes, c \in HeredocContents}
    \cup {[f |-> "nest", kind |-> "plain", pre |-> pre, content |-> c] :
              pre \in NestPrefixes, c \in PlainContents}

HeredocHead == <<"a", "<", "<", "E", NL>>

NestText(x) ==
    CASE x.kind = "backtick" -> x.pre \o <<BQ>> \o x.content \o <<BQ>>
      [] x.kind = "heredoc" -> x.pre \o HeredocHead \o x.content \o <<NL, "E", NL>>
      [] x.kind = "plain" -> x.pre \o x.content

\* The offset of the nested content in the input
NestStart(x) ==
    CASE x.kind = "backtick" -> Len(x.pre) + 1
      [] x.kind = "heredoc" -> Len(x.pre) + Len(HeredocHead)
      [] x.kind = "plain" -> Len(x.pre)

\* The nested parser's run over the content it is handed
NestParse(x) ==
    IF x.kind = "heredoc"
    THEN Call("parse_heredoc_body", NewParser(x.content \o <<NL>>), <<>>)
    ELSE Call("parse", NewParser(x.content), <<>>)

InitNest ==
    /\ NoDaemon
    /\ \E x \in NestInputs : parser = NewParser(NestText(x)) /\ probe = x
    /\ cmds = <<>>
    /\ pc = "translate"
    /\ result = NoResult
    /\ out = ""
    /\ ctx = NoCtx
    /\ idx = 0

SpecNest == InitNest /\ [][NextTr]_vars

\* C19: a ParseError for a failure inside nested content (a backtick
\* substitution, an interpolated heredoc body) carries the offset of the
\* offending byte in the original input: the offset of the nested content
\* plus the offset of the failure within it.
NestedErrorOffset ==
    (probe.f = "nest" /\ probe.kind # "plain" /\ pc = "returned" /\ parser.st = "err")
    => \E sub \in {NestParse(probe)} :
           sub.p.st = "err"
           => /\ result.err.msg = sub.p.emsg
              /\ result.err.pos = NestStart(probe) + sub.p.epos

-----------------------------------------------------------------------------
(* `export NAME=value`.                                                    *)

KwExport == <<"e", "x", "p", "o", "r", "t">>

MaxElements == 2

\* Variable names, and whether the name ends in `PATH`
ExportNames ==
    {[src |-> <<"P", "A", "T", "H">>, path |-> TRUE],
     [src |-> <<"M", "A", "N", "P", "A", "T", "H">>, path |-> TRUE],
     [src |-> <<"F", "O", "O">>, path |-> FALSE],
     [src |-> <<"P", "A", "T", "H", "S">>, path |-> FALSE]}

\* Path elements without a colon of their own: bash text and fish text
PathElements ==
    {[src |-> <<"/", "a">>, fish |-> "/a"],
     [src |-> <<"$", "x">>, fish |-> "$x"],
     [src |-> <<"b">>, fish |-> "b"]}

\* Elements with a colon inside a command substitution or a quoted
\* literal, which follow the plain elements of a value (<<>> for none)
ColonElements ==
    {[src |-> <<>>, fish |-> ""],
     [src |-> <<"$", "(", "a", SP, ":", ")">>, fish |-> "(a :)"],
     [src |-> <<SQ, "b", ":", "c", SQ>>, fish |-> SQ \o "b:c" \o SQ],
     [src |-> <<DQ, "b", ":", "c", DQ>>, fish |-> DQ \o "b:c" \o DQ]}

ElementLists(n) == UNION {[1..k -> PathElements] : k \in 1..n}

Exports(n) ==
    {[f |-> "export", name |-> nm, elems |-> es, last |-> l] :
        nm \in ExportNames, es \in ElementLists(n), l \in ColonElements}

\* The elements of a value, the one with a colon of its own last
ElementsOf(x) == IF x.last.src = <<>> THEN x.elems ELSE Append(x.elems, x.last)

RECURSIVE JoinSrc(_, _)
JoinSrc(elems, sep) ==
    IF Len(elems) = 1 THEN elems[1].src
    ELSE elems[1].src \o sep \o JoinSrc(Tail(elems), sep)

RECURSIVE JoinFish(_, _)
JoinFish(elems, sep) ==
    IF Len(elems) = 1 THEN elems[1].fish
    ELSE elems[1].fish \o sep \o JoinFish(Tail(elems), sep)

ExportText(x) == KwExport \o <<SP>> \o x.name.src \o <<"=">> \o JoinSrc(ElementsOf(x), <<":">>)

InitExport ==
    /\ NoDaemon
    /\ \E x \in Exports(MaxElements) : parser = NewParser(ExportText(x)) /\ probe = x
    /\ cmds = <<>>
    /\ pc = "translate"
    /\ result = NoResult
    /\ out = ""
    /\ ctx = NoCtx
    /\ idx = 0

SpecExport == InitExport /\ [][NextTr]_vars

\* `set -gx NAME` and the elements, one list element each when the name
\* ends in `PATH`, joined by their colons when it does not
ExportFish(x) ==
    "set -gx " \o Str(x.name.src) \o " "
        \o JoinFish(ElementsOf(x), IF x.name.path THEN " " ELSE ":")

\* C20: `export NAME=val` is emitted as `set -gx NAME val`; when NAME ends
\* in `PATH` the colons between the elements of the value become blanks, a
\* value of another name keeps its colons, and the text of an element (a
\* command substitution or a quoted literal with a colon inside) is emitted
\* as it is for any other word.
ExportSplitsPathElements ==
    (probe.f = "export" /\ pc = "returned")
    => result = [k |-> "Ok", text |-> <<ExportFish(probe)>>]

-----------------------------------------------------------------------------
(* Two calls of translate_bash_to_fish, one after the other.               *)

\* Inputs that end in Ok and in an error, with and without a subshell
TwiceInputs ==
    {<<"a">>,
     <<"A", "=", "1">>,
     <<"e", "x", "i", "t">>,
     <<"(", "a", ")">>,
     <<"(", "s", "h", "o", "p", "t", ")">>,
     <<"a", NL, "(", "A", "=", "1", ";", "s", "h", "o", "p", "t", ")">>,
     <<"s", "h", "o", "p", "t">>,
     <<"a", SP, SQ>>,
     <<"a", "&", "&", "b", NL, "c", "&">>}

InitTwice ==
    /\ NoDaemon
    /\ \E a \in TwiceInputs, b \in TwiceInputs :
           /\ parser = NewParser(a)
           /\ probe = [f |-> "twice", first |-> a, second |-> b, call |-> 1,
                       earlier |-> NoResult, left |-> NoCtx]
    /\ cmds = <<>>
    /\ pc = "translate"
    /\ result = NoResult
    /\ out = ""
    /\ ctx = NoCtx
    /\ idx = 0

CallLocals_KeepCtx(input, earlier) ==
    [parser |-> NewParser(input), ctx |-> earlier.ctx, out |-> ""]

\* The locals of a call of translate_bash_to_fish: `Parser::new(input)`,
\* `Ctx::new()` and an empty buffer; `earlier` is what the call before left
\* in its own locals, which this call does not read
CallLocals(input, earlier) ==
    [parser |-> NewParser(input), ctx |-> NoCtx, out |-> ""]

\* The caller has the first result and calls again, with the second input
TrCallAgain ==
    /\ pc = "returned"
    /\ probe.f = "twice"
    /\ probe.call = 1
    /\ \E l \in {CallLocals(probe.second, [ctx |-> ctx, out |-> out])} :
           /\ parser' = l.parser
           /\ ctx' = l.ctx
           /\ out' = l.out
    /\ cmds' = <<>>
    /\ idx' = 0
    /\ pc' = "translate"
    /\ result' = NoResult
    /\ probe' = [probe EXCEPT !.call = 2, !.earlier = result, !.left = ctx]
    /\ UNCHANGED daemon_vars

NextTwice == NextTr \/ TrCallAgain

SpecTwice == InitTwice /\ [][NextTwice]_vars

\* What translate_bash_to_fish returns, from the outcome of its emission
Returned(e) == IF e.st = "ok" THEN [k |-> "Ok", text |-> <<e.out>>] ELSE TranslateFailed(e)

\* The result of a call that no call has preceded
FirstCall(input) ==
    LET r == Call("parse", NewParser(input), <<>>) IN
    IF r.p.st # "ok" THEN ParseFailed(r.p) ELSE Returned(EmitBody(NewEmit, r.v, 1))

-----------------------------------------------------------------------------
(* The daemon (src/src/daemon.rs): serve() with its listener, the clients  *)
(* that have connected, and the bash child process with its two pipes.     *)
(* Lengths are below 2^31, the largest integer TLC evaluates.              *)

MAX_CMD_LEN == 16 * 1024 * 1024

SHUTDOWN_CMD == "__REEF_SHUTDOWN__"

PING_CMD == "__REEF_PING__"

PONG_RESPONSE == "__REEF_PONG__" \o NL

\* Most connections waiting in the listener
MaxConns == 3

\* u32::to_le_bytes, as the clients write the length
to_le_bytes(n) ==
    <<n % 256, (n \div 256) % 256, (n \div 65536) % 256, (n \div 16777216) % 256>>

\* u32::from_le_bytes(len_buf) as usize
from_le_bytes(len_buf) ==
    len_buf[1] + 256 * len_buf[2] + 65536 * len_buf[3] + 16777216 * len_buf[4]

\* What a client has written before it waits for the response or hangs
\* up: the bytes of the length, and after them n bytes of command text
\* (text "big" stands for n bytes of an ordinary command)
Request(len_buf, n, text) == [len_buf |-> len_buf, n |-> n, text |-> text]

\* exec(), stop() and status() send the length of the command and the command
Sent(text) == Request(to_le_bytes(Len(text)), Len(text), text)

Requests ==
    {Sent("echo"), Sent("exit"), Sent("exec sleep 9"), Sent(PING_CMD),
     Sent(SHUTDOWN_CMD),
     Request(to_le_bytes(MAX_CMD_LEN), MAX_CMD_LEN, "big"),
     Request(to_le_bytes(MAX_CMD_LEN + 1), MAX_CMD_LEN + 1, "big"),
     Request(<<255, 255, 255, 127>>, 4, "echo"),
     Request(to_le_bytes(9), 4, "echo"),
     Request(<<4, 0>>, 0, "")}

\* The connections of a run, in the order in which they are accepted
Connections(n) ==
    UNION {[1..k -> Requests] : k \in 1..n}

\* bash after `Command::new("bash")...spawn()`: running, nothing in its pipes
Spawned ==
    [status |-> "running", stdin |-> <<>>, stdin_open |-> TRUE,
     stdout |-> <<>>, stdout_open |-> TRUE]

InitDaemon ==
    /\ \E conns \in Connections(MaxConns) :
           listener = [i \in 1..Len(conns) |-> [id |-> i, req |-> conns[i]]]
    /\ server = [pc |-> "accept", stream |-> 0, response |-> <<>>]
    /\ bash = Spawned
    /\ clients = <<>>
    /\ trace = <<>>
    /\ parser = NewParser(<<>>)
    /\ cmds = <<>>
    /\ pc = "daemon"
    /\ result = NoResult
    /\ out = ""
    /\ ctx = NoCtx
    /\ idx = 0
    /\ probe = NoProbe

translator_vars == <<parser, cmds, pc, result, out, ctx, idx, probe>>

\* `bash.kill()` (and `bash.wait()`)
Killed(b) == [b EXCEPT !.status = "exited", !.stdin_open = FALSE, !.stdout_open = FALSE]

Oversized_Never(cmd_len) == FALSE

\* `cmd_len > MAX_CMD_LEN`
Oversized(cmd_len) == cmd_len > MAX_CMD_LEN

\* The two read_exact calls and the length guard: <<command>> when the
\* request has been read, <<>> when the loop goes on to the next connection
ReadCommand(req) ==
    IF Len(req.len_buf) < 4 THEN <<>>
    ELSE IF Oversized(from_le_bytes(req.len_buf)) THEN <<>>
    ELSE IF req.n < from_le_bytes(req.len_buf) THEN <<>>
    ELSE IF req.text = "big" THEN <<"big">>
    ELSE <<SubSeq(req.text, 1, from_le_bytes(req.len_buf))>>

Event(ev, conn) == [ev |-> ev, id |-> conn.id, req |-> conn.req]

\* One turn of `for stream in listener.incoming()` up to the point where
\* the script has been written to bash
ServeAccept ==
    /\ server.pc = "accept"
    /\ listener # <<>>
    /\ listener' = Tail(listener)
    /\ \E conn \in {Head(listener)}, command \in {ReadCommand(Head(listener).req)} :
         IF command = <<>>
         THEN /\ trace' = Append(trace, Event("drop", conn))
              /\ UNCHANGED <<server, bash, clients>>
         ELSE IF command[1] = SHUTDOWN_CMD
         THEN /\ bash' = Killed(bash)
              /\ server' = [server EXCEPT !.pc = "returned"]
              /\ trace' = Append(trace, Event("shutdown", conn))
              /\ UNCHANGED clients
         ELSE IF command[1] = PING_CMD
         THEN /\ clients' = Append(clients, [id |-> conn.id, text |-> <<PONG_RESPONSE>>])
              /\ trace' = Append(trace, Event("pong", conn))
              /\ UNCHANGED <<server, bash>>
         ELSE IF bash.stdin_open
         THEN /\ bash' = [bash EXCEPT !.stdin = Append(@, [id |-> conn.id,
                                                           command |-> command[1]])]
              /\ server' = [pc |-> "read", stream |-> conn.id, response |-> <<>>]
              /\ trace' = Append(trace, Event("forward", conn))
              /\ UNCHANGED clients
         ELSE /\ clients' = Append(clients,
                     [id |-> conn.id, text |-> <<"reef daemon: bash process died" \o NL>>])
              /\ bash' = Killed(bash)
              /\ server' = [server EXCEPT !.pc = "returned"]
              /\ trace' = Append(trace, Event("died", conn))
    /\ UNCHANGED translator_vars

\* contains_sentinel(&response, DONE_SENTINEL)
contains_sentinel(response) == \E i \in 1..Len(response) : response[i].done

\* One turn of the loop around `reader.read_until(b'\n', &mut line)`
ServeReadLine ==
    /\ server.pc = "read"
    /\ IF bash.stdout # <<>>
       THEN /\ bash' = [bash EXCEPT !.stdout = Tail(@)]
            /\ \E response \in {Append(server.response, Head(bash.stdout))} :
                   server' = [server EXCEPT !.response = response,
                                            !.pc = IF contains_sentinel(response)
                                                   THEN "reply" ELSE "read"]
       ELSE /\ ~bash.stdout_open
            /\ bash' = bash
            /\ server' = [server EXCEPT !.pc = "reply"]
    /\ UNCHANGED <<listener, clients, trace>>
    /\ UNCHANGED translator_vars

\* `stream.write_all(&response)` and the `bash.try_wait()` that follows
ServeReply ==
    /\ server.pc = "reply"
    /\ clients' = Append(clients, [id |-> server.stream, text |-> server.response])
    /\ trace' = Append(trace, [ev |-> "reply", id |-> server.stream,
                               done |-> contains_sentinel(server.response)])
    /\ server' = [server EXCEPT !.pc = IF bash.status = "exited" THEN "returned"
                                       ELSE "accept"]
    /\ UNCHANGED <<listener, bash>>
    /\ UNCHANGED translator_vars

\* bash reads the next script from its stdin and runs it.  An ordinary
\* command ends with the lines of the environment dump, the last of which
\* holds DONE_SENTINEL; `exit` ends the process, which closes its pipes;
\* `exec program` replaces bash by a program that keeps stdin and has the
\* daemon's stderr as its stdout, so that the stdout pipe is closed.
BashEval ==
    /\ bash.status = "running"
    /\ bash.stdin # <<>>
    /\ \E script \in {Head(bash.stdin)} :
         IF script.command = "exit"
         THEN bash' = [bash EXCEPT !.status = "closing", !.stdin = Tail(@),
                                   !.stdin_open = FALSE, !.stdout_open = FALSE]
         ELSE IF Len(script.command) >= 5 /\ SubSeq(script.command, 1, 5) = "exec "
         THEN bash' = [bash EXCEPT !.status = "replaced", !.stdin = Tail(@),
                                   !.stdout_open = FALSE]
         ELSE bash' = [bash EXCEPT !.stdin = Tail(@),
                                   !.stdout = @ \o <<[id |-> script.id, done |-> FALSE],
                                                     [id |-> script.id, done |-> TRUE]>>]
    /\ UNCHANGED <<listener, server, clients, trace>>
    /\ UNCHANGED translator_vars

\* The program that replaced bash ends
BashExit ==
    /\ bash.status = "replaced"
    /\ bash' = [bash EXCEPT !.status = "closing", !.stdin_open = FALSE]
    /\ UNCHANGED <<listener, server, clients, trace>>
    /\ UNCHANGED translator_vars

\* The process that closed its pipes has ended: try_wait() reports it
BashReap ==
    /\ bash.status = "closing"
    /\ bash' = [bash EXCEPT !.status = "exited"]
    /\ UNCHANGED <<listener, server, clients, trace>>
    /\ UNCHANGED translator_vars

NextDaemon ==
    ServeAccept \/ ServeReadLine \/ ServeReply \/ BashEval \/ BashExit \/ BashReap

SpecDaemon == InitDaemon /\ [][NextDaemon]_vars

\* The positions of the trace at which a command was written to bash
Forwards == {i \in 1..Len(trace) : trace[i].ev = "forward"}

\* C22: connections are served in accept order, and between two commands
\* written to bash the response to the first has been read up to
\* DONE_SENTINEL and written to its client.
OneCommandAtATime ==
    /\ \A i, j \in 1..Len(trace) :
           (i < j /\ trace[i].ev # "reply" /\ trace[j].ev # "reply")
           => trace[i].id < trace[j].id
    /\ \A i, j \in Forwards :
           i < j => \E k \in (i + 1)..(j - 1) :
                        /\ trace[k].ev = "reply"
                        /\ trace[k].id = trace[i].id
                        /\ trace[k].done

\* The request declares more than MAX_CMD_LEN bytes
DeclaresTooMuch(req) ==
    Len(req.len_buf) = 4 /\ from_le_bytes(req.len_buf) > MAX_CMD_LEN

\* C30: a request that declares more than 16 MiB is dropped: nothing of it
\* is written to bash or answered, and the step that drops it leaves the
\* bash process and the server's place in the accept loop as they were.
OversizedDropped ==
    /\ [](\A i \in 1..Len(trace) :
             (trace[i].ev # "reply" /\ DeclaresTooMuch(trace[i].req))
             => trace[i].ev = "drop")
    /\ [][(listener # <<>> /\ listener' = Tail(listener)
             /\ DeclaresTooMuch(Head(listener).req))
          => (bash' = bash /\ server' = server /\ server.pc = "accept"
                /\ clients' = clients)]_vars

\* A request that declares MAX_CMD_LEN + 1 bytes and sends them has been
\* dropped; the command of the next connection has been written to bash and
\* answered up to DONE_SENTINEL, and bash is running.
OversizedDroppedWitness ==
    /\ Len(trace) = 3
    /\ trace[1].ev = "drop"
    /\ trace[1].req = Request(to_le_bytes(MAX_CMD_LEN + 1), MAX_CMD_LEN + 1, "big")
    /\ trace[2].ev = "forward" /\ trace[2].id = 2
    /\ trace[3].ev = "reply" /\ trace[3].id = 2 /\ trace[3].done
    /\ bash.status = "running"
    /\ server.pc = "accept"

-----------------------------------------------------------------------------
(* `case` statements.                                                      *)

\* Most arms of a case statement
MaxArms == 2

CasePatternTexts == {<<"a", ")">>, <<"(", "a", "|", "b", ")", SP>>}

\* Arm bodies, some with a closing bracket that no opening one precedes
CaseBodyTexts ==
    {<<>>, <<"b">>, <<"b", ";", "c", NL>>, <<"#", "c", NL, "b">>, <<"b", SP, "&">>,
     <<")">>, <<"b", SP, ")">>, <<"}", ";">>}

CaseEndTexts == {<<";", ";">>, <<SP, ";", ";", NL>>, <<NL>>}

CaseArmTexts ==
    {pat \o b \o e : pat \in CasePatternTexts, b \in CaseBodyTexts, e \in CaseEndTexts}

CaseTexts(n) ==
    {KwCase \o <<SP, "x", SP>> \o KwIn \o <<SP>> \o Flatten(arms) \o tail :
        arms \in UNION {[1..k -> CaseArmTexts] : k \in 0..n},
        tail \in {<<SP>> \o KwEsac, <<>>}}

InitCase ==
    /\ NoDaemon
    /\ parser \in {NewParser(input) : input \in CaseTexts(MaxArms)}
    /\ cmds = <<>>
    /\ pc = "parse"
    /\ result = NoResult
    /\ out = ""
    /\ ctx = NoCtx
    /\ idx = 0
    /\ probe = NoProbe

SpecCase == InitCase /\ [][NextParse]_vars

\* C23: no loop of the parser repeats a turn that leaves the cursor where
\* it was, so Parser::parse returns on every input.
ParseTerminates == parser.st # "hang"

-----------------------------------------------------------------------------
(* The line that introduces a heredoc.                                     *)

\* What follows `a<<E` on its line, and the commands the line then holds
\* (List, or Job for a command ended by `&`)
HeadLineRests ==
    {[src |-> <<>>, kinds |-> <<"List">>],
     [src |-> <<SP, "b">>, kinds |-> <<"List">>],
     [src |-> <<"|", "c">>, kinds |-> <<"List">>],
     [src |-> <<"&", "&", "c">>, kinds |-> <<"List">>],
     [src |-> <<";", "d">>, kinds |-> <<"List", "List">>],
     [src |-> <<SP, "&">>, kinds |-> <<"Job">>],
     [src |-> <<"&", "d">>, kinds |-> <<"Job", "List">>],
     [src |-> <<";", "d", "&">>, kinds |-> <<"List", "Job">>]}

HeredocOperators == {<<"<", "<">>, <<"<", "<", "-">>, <<"<", "<", SP>>}

HeredocTags == {[src |-> <<"E">>, tag |-> <<"E">>],
                [src |-> <<SQ, "E", SQ>>, tag |-> <<"E">>]}

HeredocBodies == {<<>>, <<"x", NL>>, <<"x", NL, "$", "y", NL>>}

\* What follows the delimiter line, and the commands it holds
AfterHeredoc ==
    {[src |-> <<>>, kinds |-> <<>>],
     [src |-> <<"f", NL>>, kinds |-> <<"List">>],
     [src |-> <<"f", "&", NL, "g">>, kinds |-> <<"Job", "List">>]}

HeadLines ==
    {[f |-> "heredoc_line", op |-> op, tag |-> t, rest |-> r, body |-> b, after |-> a] :
        op \in HeredocOperators, t \in HeredocTags, r \in HeadLineRests,
        b \in HeredocBodies, a \in AfterHeredoc}

HeadLineText(x) ==
    <<"a">> \o x.op \o x.tag.src \o x.rest.src \o <<NL>> \o x.body \o x.tag.tag
        \o <<NL>> \o x.after.src

InitHeadLine ==
    /\ NoDaemon
    /\ \E x \in HeadLines : parser = NewParser(HeadLineText(x)) /\ probe = x
    /\ cmds = <<>>
    /\ pc = "parse"
    /\ result = NoResult
    /\ out = ""
    /\ ctx = NoCtx
    /\ idx = 0

SpecHeadLine == InitHeadLine /\ [][NextParse]_vars

\* C24: the commands of the line that introduces a heredoc are all in the
\* tree, those after `;` and the `&` of a background job included, followed
\* by the commands after the delimiter line.
HeadLineKept ==
    (probe.f = "heredoc_line" /\ pc = "returned")
    => /\ result.k = "Ok"
       /\ [i \in 1..Len(result.cmds) |-> result.cmds[i].k]
              = probe.rest.kinds \o probe.after.kinds

-----------------------------------------------------------------------------
(* `continue` in the body of a C-style for loop.                           *)

\* Loop bodies: bash text, and whether an iteration can end at a `continue`
ContinueBodies ==
    {[src |-> <<"a", NL>>, continues |-> FALSE],
     [src |-> <<"a", ";", "b", ";">>, continues |-> FALSE],
     [src |-> <<"c", "o", "n", "t", "i", "n", "u", "e", ";">>, continues |-> TRUE],
     [src |-> <<"a", ";", "c", "o", "n", "t", "i", "n", "u", "e", ";", "b", ";">>,
      continues |-> TRUE],
     [src |-> <<"a", "&", "&", "c", "o", "n", "t", "i", "n", "u", "e", ";", "b", ";">>,
      continues |-> TRUE],
     [src |-> <<"a", "|", "|", "c", "o", "n", "t", "i", "n", "u", "e", NL>>,
      continues |-> TRUE],
     [src |-> <<"{", SP, "c", "o", "n", "t", "i", "n", "u", "e", ";", "}", ";">>,
      continues |-> TRUE]}

ContinueLoops ==
    {[f |-> "cfor_continue", init |-> i, cond |-> c, step |-> st, body |-> b,
      sep |-> <<";", SP>>] :
        i \in ForStatements, c \in ForConditions, st \in ForStatements,
        b \in ContinueBodies}

InitContinue ==
    /\ NoDaemon
    /\ \E x \in ContinueLoops : parser = NewParser(ForLoopText(x)) /\ probe = x
    /\ cmds = <<>>
    /\ pc = "translate"
    /\ result = NoResult
    /\ out = ""
    /\ ctx = NoCtx
    /\ idx = 0

SpecContinue == InitContinue /\ [][NextTr]_vars

RECURSIVE Lines(_)
\* The lines of an emitted text
Lines(text) ==
    LET at == find(text, NL) IN
    IF at = <<>> THEN <<text>>
    ELSE <<SubSeq(text, 1, at[1])>> \o Lines(SubSeq(text, at[1] + 2, Len(text)))

RECURSIVE Iteration(_, _, _, _)
\* How one iteration of the emitted `while` loop can get from line i of the
\* loop back to the condition: "step" when the step statement has run,
\* "condition" when it has not. `continue` goes back to the condition at
\* once; after `; and` or `; or` it does so for one of the two statuses of
\* the command in front.
Iteration(lines, i, depth, step) ==
    IF i > Len(lines) THEN {}
    ELSE IF lines[i] = "continue" THEN {"condition"}
    ELSE IF ends_with(lines[i], "; and continue") \/ ends_with(lines[i], "; or continue")
         THEN {"condition"} \union Iteration(lines, i + 1, depth, step)
    ELSE IF lines[i] = "begin" THEN Iteration(lines, i + 1, depth + 1, step)
    ELSE IF lines[i] = "end"
         THEN IF depth = 0 THEN {"condition"}
              ELSE Iteration(lines, i + 1, depth - 1, step)
    ELSE IF depth = 0 /\ lines[i] = step THEN {"step"}
    ELSE Iteration(lines, i + 1, depth, step)

\* The ways an iteration of the loop emitted for x gets back to the condition
IterationEnds(text, x) ==
    LET lines == Lines(text)
        head == CHOOSE i \in 1..Len(lines) : starts_with(lines[i], "while ")
    IN  Iteration(lines, head + 1, 0, "set " \o x.step.fish[1])

\* C25: in the fish code emitted for a C-style for loop with a step, every
\* iteration runs the step statement before the condition is evaluated
\* again, an iteration that the body ends with `continue` included.
StepBeforeCondition ==
    (probe.f = "cfor_continue" /\ pc = "returned" /\ result.k = "Ok"
        /\ probe.step.src # <<>>)
    => IterationEnds(result.text[1], probe) = {"step"}

-----------------------------------------------------------------------------
(* Increment, decrement and assignment inside an arithmetic expression.    *)

\* Initializers: bash text, and the variables that an increment, decrement
\* or assignment below the top of the expression changes
EffectStatements ==
    {[src |-> <<>>, inner |-> {}],
     [src |-> <<"i", "=", "0">>, inner |-> {}],
     [src |-> <<"x", "=", "y", "+", "1">>, inner |-> {}],
     [src |-> <<"x", "=", "y", "+", "+">>, inner |-> {"y"}],
     [src |-> <<"x", "=", "-", "-", "y", "*", "2">>, inner |-> {"y"}],
     [src |-> <<"x", "=", "y", "=", "2">>, inner |-> {"y"}],
     [src |-> <<"x", "+", "=", "y", "+", "+">>, inner |-> {"y"}]}

\* Conditions, likewise
EffectConditions ==
    {[src |-> <<>>, inner |-> {}],
     [src |-> <<"i", "<", "3">>, inner |-> {}],
     [src |-> <<"j", "+", "+", "<", "3">>, inner |-> {"j"}],
     [src |-> <<"-", "-", "y">>, inner |-> {"y"}],
     [src |-> <<"!", "y", "+", "+">>, inner |-> {"y"}],
     [src |-> <<"y", "+", "+", "&", "&", "1">>, inner |-> {"y"}],
     [src |-> <<"i", "<", "(", "y", "=", "3", ")">>, inner |-> {"y"}]}

EffectLoops ==
    {[f |-> "arith_effect", init |-> i, cond |-> c, step |-> st,
      body |-> [src |-> <<"a", NL>>], sep |-> <<";", SP>>] :
        i \in EffectStatements, c \in EffectConditions, st \in EffectStatements}

InitEffect ==
    /\ NoDaemon
    /\ \E x \in EffectLoops : parser = NewParser(ForLoopText(x)) /\ probe = x
    /\ cmds = <<>>
    /\ pc = "translate"
    /\ result = NoResult
    /\ out = ""
    /\ ctx = NoCtx
    /\ idx = 0

SpecEffect == InitEffect /\ [][NextTr]_vars

\* str::contains
contains(text, pat) ==
    \E i \in 1..(Len(text) - Len(pat) + 1) : SubSeq(text, i, i + Len(pat) - 1) = pat

\* The variables that the nested side effects of the loop header change
InnerVariables(x) == x.init.inner \union x.cond.inner \union x.step.inner

\* C26: when the initializer, condition or step of a C-style for loop has
\* an increment, decrement or assignment nested in it, the loop is rejected
\* or the emitted text sets the inner variable: it is never emitted with the
\* nested side effect left out.
NestedEffectKept ==
    (probe.f = "arith_effect" /\ pc = "returned" /\ result.k = "Ok")
    => \A v \in InnerVariables(probe) : contains(result.text[1], "set " \o v \o " ")

-----------------------------------------------------------------------------
(* Variable changes inside a subshell.                                     *)

\* Commands that change a variable: assignments and `export`
ScopeCores ==
    {[src |-> <<"A", "=", "1">>, export |-> FALSE],
     [src |-> <<"A", "=">>, export |-> FALSE],
     [src |-> <<"A", "=", "1", SP, "B", "=", SQ, "b", SQ>>, export |-> FALSE],
     [src |-> KwExport \o <<SP, "A", "=", "1">>, export |-> TRUE],
     [src |-> KwExport \o <<SP, "A">>, export |-> TRUE],
     [src |-> KwExport \o <<SP, "A", "=", "1", SP, "B", "=", "$", "A">>, export |-> TRUE],
     [src |-> KwExport \o <<SP, "P", "A", "T", "H", "=", "b", ":", "c">>, export |-> TRUE]}

ScopeStatements ==
    {[f |-> "scope", core |-> c, wrap |-> w] : c \in ScopeCores, w \in Wrappers}

InitScope ==
    /\ NoDaemon
    /\ \E x \in ScopeStatements :
           parser = NewParser(x.wrap.pre \o x.core.src \o x.wrap.post) /\ probe = x
    /\ cmds = <<>>
    /\ pc = "translate"
    /\ result = NoResult
    /\ out = ""
    /\ ctx = NoCtx
    /\ idx = 0

SpecScope == InitScope /\ [][NextTr]_vars

\* The `set` statements of an emitted text
SetStatements(text) ==
    LET lines == Lines(text) IN
    {lines[i] : i \in {j \in 1..Len(lines) : starts_with(lines[j], "set ")}}

\* C27: when a command that changes a variable stands in a subshell body
\* and is translated, every `set` statement of the emitted block has
\* block-local scope (`set -l`): none sets a variable that is still there
\* after the block.
SubshellScopeLocal ==
    (probe.f = "scope" /\ pc = "returned" /\ result.k = "Ok" /\ probe.wrap.sub)
    => \A line \in SetStatements(result.text[1]) : starts_with(line, "set -l ")

-----------------------------------------------------------------------------
(* `NAME+=value`.                                                          *)

\* `=` and `+=`
AssignOperators == {<<"=">>, <<"+", "=">>}

AssignNames == {<<"A">>, <<"B", "1">>}

\* Values of a scalar assignment
AssignValues ==
    {<<>>, <<"b">>, <<SQ, "b", SP, "c", SQ>>, <<"$", "A">>, <<DQ, "x", "$", "A", DQ>>,
     <<"b", "=", "c">>}

\* What the assignment stands in: nothing, a subshell, in front of a
\* command, behind another assignment
AssignPlaces ==
    {[pre |-> <<>>, post |-> <<>>],
     [pre |-> <<"(">>, post |-> <<")">>],
     [pre |-> <<>>, post |-> <<SP, "c">>],
     [pre |-> <<"C", "=", "1", SP>>, post |-> <<>>]}

Assignments ==
    {[f |-> "append", name |-> n, op |-> o, value |-> v, place |-> pl] :
        n \in AssignNames, o \in AssignOperators, v \in AssignValues,
        pl \in AssignPlaces}

AssignText(x, op) == x.place.pre \o x.name \o op \o x.value \o x.place.post

InitAppend ==
    /\ NoDaemon
    /\ \E x \in Assignments : parser = NewParser(AssignText(x, x.op)) /\ probe = x
    /\ cmds = <<>>
    /\ pc = "translate"
    /\ result = NoResult
    /\ out = ""
    /\ ctx = NoCtx
    /\ idx = 0

SpecAppend == InitAppend /\ [][NextTr]_vars

\* C28: the tree parsed from `NAME+=value` is not the tree parsed from
\* `NAME=value`, and what is returned for `NAME+=value` is not the text
\* returned for `NAME=value`.
AppendDistinguished ==
    (probe.f = "append" /\ pc = "returned" /\ probe.op = <<"+", "=">>)
    => /\ cmds # Call("parse", NewParser(AssignText(probe, <<"=">>)), <<>>).v
       /\ result.k = "Ok" => result # FirstCall(AssignText(probe, <<"=">>))

-----------------------------------------------------------------------------
(* The subshell flag after a subshell.                                     *)

\* How many subshells enclose the subshell and the statement after it, at
\* most
MaxDepth == 1

\* The subshell in front: bash text and fish text
FrontSubshells ==
    {[src |-> <<"(", "a", ")">>, fish |-> SubOpen \o "a" \o SubClose],
     [src |-> <<"(", "B", "=", "2", ")">>,
      fish |-> SubOpen \o "set -l B 2" \o SubClose],
     [src |-> <<"(", "B", "=", ")">>, fish |-> SubOpen \o "set -l B" \o SubClose],
     [src |-> <<"(", SP, "a", SP, "b", ")">>, fish |-> SubOpen \o "a b" \o SubClose]}

\* The statement after the subshell: bash text, and fish text after the
\* scope keyword where it is an assignment
BackStatements ==
    {[src |-> <<"a">>, k |-> "command", fish |-> "a"],
     [src |-> KwExit, k |-> "exit", fish |-> "exit"],
     [src |-> <<"A", "=", "1">>, k |-> "assign", fish |-> "A 1"],
     [src |-> <<"A", "=", "$", "B">>, k |-> "assign", fish |-> "A $B"]}

\* What follows at top level after the enclosing subshells
LastStatements ==
    {[src |-> <<>>, fish |-> ""],
     [src |-> <<NL, "C", "=", "3">>, fish |-> NL \o "set C 3"]}

FlagInputs ==
    {[f |-> "flag", depth |-> d, front |-> fr, back |-> b, last |-> l] :
        d \in 0..MaxDepth, fr \in FrontSubshells, b \in BackStatements,
        l \in LastStatements}

RECURSIVE Opened(_)
Opened(n) == IF n = 0 THEN <<>> ELSE <<"(", SP>> \o Opened(n - 1)

RECURSIVE Closed(_)
Closed(n) == IF n = 0 THEN <<>> ELSE <<SP, ")">> \o Closed(n - 1)

FlagText(x) ==
    Opened(x.depth) \o x.front.src \o <<";">> \o x.back.src \o Closed(x.depth)
        \o x.last.src

InitFlag ==
    /\ NoDaemon
    /\ \E x \in FlagInputs : parser = NewParser(FlagText(x)) /\ probe = x
    /\ cmds = <<>>
    /\ pc = "translate"
    /\ result = NoResult
    /\ out = ""
    /\ ctx = NoCtx
    /\ idx = 0

SpecFlag == InitFlag /\ [][NextTr]_vars

RECURSIVE OpenedFish(_)
OpenedFish(n) == IF n = 0 THEN "" ELSE SubOpen \o OpenedFish(n - 1)

RECURSIVE ClosedFish(_)
ClosedFish(n) == IF n = 0 THEN "" ELSE SubClose \o ClosedFish(n - 1)

\* The emitted text when the flag after the subshell in front is what it
\* was before it: set inside the enclosing subshells, clear at top level
FlagFish(x) ==
    OpenedFish(x.depth) \o x.front.fish \o NL
        \o (IF x.back.k # "assign" THEN ""
            ELSE IF x.depth > 0 THEN "set -l " ELSE "set ")
        \o x.back.fish \o ClosedFish(x.depth) \o x.last.fish

\* C29: the statement after a subshell is emitted as its place before the
\* subshell asks: at top level an assignment gets `set ` and `exit` is
\* emitted; inside an enclosing subshell an assignment gets `set -l ` and
\* `exit` is rejected as Unsupported.  After every top-level command that
\* has been emitted the flag of the context is clear again.
SubshellFlagNested ==
    /\ (probe.f = "flag" /\ pc = "emit") => ~ctx.in_subshell
    /\ (probe.f = "flag" /\ pc = "returned")
       => IF probe.back.k = "exit" /\ probe.depth > 0
          THEN result.k = "Err" /\ result.err.k = "Unsupported"
          ELSE result = [k |-> "Ok", text |-> <<FlagFish(probe)>>]

\* An assignment after a subshell nested in a subshell has been emitted
\* with `set -l `, and an assignment that follows at top level with `set `.
SubshellFlagNestedWitness ==
    /\ probe.f = "flag" /\ pc = "returned" /\ result.k = "Ok"
    /\ probe.depth = 1
    /\ probe.front.src = <<"(", "B", "=", "2", ")">>
    /\ probe.back.src = <<"A", "=", "1">>
    /\ probe.last.src # <<>>
    /\ contains(result.text[1], SubClose \o NL \o "set -l A 1" \o SubClose \o NL \o "set C 3")

====
